---- MODULE Spec2Model ----
(***************************************************************************)
(* State-machine model of semantic-scholar-mcp's resource-access layer.    *)
(*                                                                         *)
(* The repository holds two programs.  The "tools" program                 *)
(* (src/src/tools/index.ts) uses the class CacheService of                 *)
(* src/src/services/cache.ts; the "server" program (src/src/server.ts)     *)
(* uses the key/value cache of cache.js (src/unnamed/part_002).            *)
(*                                                                         *)
(* Strings are sequences of one-character strings.  Wall-clock time is in  *)
(* milliseconds, counted from an instant that is a whole second.           *)
(***************************************************************************)
EXTENDS Integers, Sequences, FiniteSets, TLC

VARIABLES
  program,    \* which program runs: "tools" or "server"
  clock,      \* Date.now(), in ms
  table,      \* CacheService: the rows of SQLite table `cache`
  hitCount,   \* CacheService.hitCount
  missCount,  \* CacheService.missCount
  maxSize,    \* CacheService.maxSize
  ttl,        \* CacheService.ttl, in ms
  ret,        \* the synchronous call that has just returned, with what it returned
  kv,         \* cache.js: the rows of its table `cache`
  pc,         \* cache.js: where each caller of getCachedOrFetch stands
  frame,      \* cache.js: each caller's key, ttlSeconds and `now`
  out,        \* cache.js: what each caller's call has just returned or thrown
  kb,         \* key builder: a caller's parameter object and the key built from it
  getCalls,   \* history: the get calls of CacheService made so far
  states,     \* RateLimitService.states: key -> {tokens, lastRefill}
  lret,       \* the RateLimitService call that has just returned, with what it returned
  hist,       \* history: per key, the isAllowed calls since its state was created
  uri,        \* neo4j.ts: what process.env.NEO4J_URI holds
  driver,     \* neo4j.ts: the module's `driver`
  gq,         \* neo4j.ts: the locals of the executeReadQuery call in progress
  gmon,       \* neo4j.ts: what the call did to the backend, and how it ended
  hd,         \* tools: the locals of each tool-handler invocation
  hmon,       \* tools: what each invocation did, in order, and its result
  pv,         \* toPlainValue: a value of the driver and what it was converted to
  wt,         \* RateLimitService: the locals of each waitForToken call, and its result
  lastRequestTime, \* semantic-scholar.ts: the module's `lastRequestTime`
  tq,         \* semantic-scholar.ts: where each caller of throttledFetch stands
  fetchAt,    \* history: the instants at which upstream fetches were started
  sk,         \* server.ts: per invocation, the tool, its arguments and its cache key
  transports, \* server.ts: the keys of the Map `transports`
  sess        \* server.ts: the sessions initialized and closed so far, and the last response

vars == <<program, clock, table, hitCount, missCount, maxSize, ttl, ret, kv, pc, frame, out, kb,
          getCalls, states, lret, hist, uri, driver, gq, gmon, hd, hmon, pv, wt,
          lastRequestTime, tq, fetchAt, sk, transports, sess>>
guardVars == <<uri, driver, gq, gmon>>
handlerVars == <<hd, hmon, wt>>
plainVars == <<pv>>
limVars == <<states, lret, hist>>
cacheState == <<table, hitCount, missCount, maxSize, ttl>>
kvVars == <<kv, pc, frame, out>>
keyVars == <<kb>>
throttleVars == <<lastRequestTime, tq, fetchAt>>
sessionVars == <<transports, sess>>
serverVars == <<throttleVars, sk, sessionVars>>

(***************************************************************************)
(* Bounds of the model.                                                    *)
(***************************************************************************)
\* CACHE_TTL_DAYS of the environment
TtlDays == 1
\* CACHE_MAX_SIZE of the environment, in bytes
CacheMaxSize == 4
\* get calls per run (the hit and miss counters are unbounded in the code)
MaxGets == 2
\* a sub-second offset, in ms, at which calls are made
SubSecond == 500
\* keys written by the bulk-fill scenario
FillKeys == 102
\* CACHE_MAX_SIZE of the bulk-fill scenario, in bytes
FillMaxSize == 202
\* properties of a parameter object given to the key builder
MaxKeyParams == 3

(***************************************************************************)
(* Characters and strings.                                                 *)
(***************************************************************************)
\* The UTF-16 code unit (and, for these ASCII characters, the UTF-8 byte).
CharCode ==
  [c \in {"0","1","2","3","4","5","6","7","8","9"} |->
     CASE c = "0" -> 48 [] c = "1" -> 49 [] c = "2" -> 50 [] c = "3" -> 51
       [] c = "4" -> 52 [] c = "5" -> 53 [] c = "6" -> 54 [] c = "7" -> 55
       [] c = "8" -> 56 [] c = "9" -> 57]
  @@ [c \in {"a","b","c","d","e","f","h","i","n","p","q","r","s","u","x","y"} |->
     CASE c = "a" -> 97 [] c = "b" -> 98 [] c = "c" -> 99 [] c = "d" -> 100
       [] c = "e" -> 101 [] c = "f" -> 102 [] c = "h" -> 104 [] c = "i" -> 105
       [] c = "n" -> 110 [] c = "p" -> 112 [] c = "q" -> 113 [] c = "r" -> 114
       [] c = "s" -> 115 [] c = "u" -> 117 [] c = "x" -> 120 [] c = "y" -> 121]
  @@ [c \in {"\"", ":", "|", "_"} |->
     CASE c = "\"" -> 34 [] c = ":" -> 58 [] c = "|" -> 124 [] c = "_" -> 95]

DigitChars == <<"0","1","2","3","4","5","6","7","8","9">>

\* String(n) for a non-negative integer: its decimal digits.
RECURSIVE NumberToString(_)
NumberToString(n) ==
  IF n < 10 THEN <<DigitChars[n + 1]>>
  ELSE NumberToString(n \div 10) \o <<DigitChars[(n % 10) + 1]>>

\* The number a string of decimal digits denotes.
RECURSIVE StringToNumber(_)
StringToNumber(s) ==
  IF Len(s) = 0 THEN 0
  ELSE 10 * StringToNumber(SubSeq(s, 1, Len(s) - 1)) + (CharCode[s[Len(s)]] - 48)

\* s < t as JavaScript compares strings: by UTF-16 code units, a prefix first.
RECURSIVE StringLess(_, _)
StringLess(s, t) ==
  IF Len(t) = 0 THEN FALSE
  ELSE IF Len(s) = 0 THEN TRUE
  ELSE IF CharCode[Head(s)] # CharCode[Head(t)] THEN CharCode[Head(s)] < CharCode[Head(t)]
  ELSE StringLess(Tail(s), Tail(t))

\* Array.prototype.join
RECURSIVE Join(_, _)
Join(parts, sep) ==
  IF Len(parts) = 0 THEN <<>>
  ELSE IF Len(parts) = 1 THEN parts[1]
  ELSE parts[1] \o sep \o Join(Tail(parts), sep)

(***************************************************************************)
(* JavaScript values and JSON.  A value is a number, a string or           *)
(* undefined.                                                              *)
(***************************************************************************)
Num(n) == [k |-> "num", n |-> n, s |-> <<>>]
Str(s) == [k |-> "str", n |-> 0, s |-> s]
Undefined == [k |-> "undefined", n |-> 0, s |-> <<>>]
Null == [k |-> "null", n |-> 0, s |-> <<>>]

\* `${JSON.stringify(v)}`: JSON.stringify(undefined) is undefined, which a
\* template literal renders as the text "undefined".
JSONstringify(v) ==
  CASE v.k = "num" -> NumberToString(v.n)
    [] v.k = "str" -> <<"\"">> \o v.s \o <<"\"">>
    [] v.k = "null" -> <<"n","u","l","l">>
    [] OTHER -> <<"u","n","d","e","f","i","n","e","d">>

\* JSON.parse of a text JSONstringify wrote for a number or a string.
JSONparse(text) ==
  IF Len(text) >= 2 /\ Head(text) = "\"" /\ text[Len(text)] = "\""
  THEN Str(SubSeq(text, 2, Len(text) - 1))
  ELSE Num(StringToNumber(text))

\* Buffer.byteLength(text, 'utf8'), all characters being ASCII.
ByteLength(text) == Len(text)

(***************************************************************************)
(* Key builder: CacheService.generateKey.                                  *)
(***************************************************************************)
Base64Alphabet ==
  <<"A","B","C","D","E","F","G","H","I","J","K","L","M","N","O","P",
    "Q","R","S","T","U","V","W","X","Y","Z","a","b","c","d","e","f",
    "g","h","i","j","k","l","m","n","o","p","q","r","s","t","u","v",
    "w","x","y","z","0","1","2","3","4","5","6","7","8","9","+","/">>

\* Buffer.from(text): the UTF-8 bytes of an ASCII text.
BufferFrom(text) == [i \in 1..Len(text) |-> CharCode[text[i]]]

\* Buffer.toString('base64'): three bytes make four characters, and a last
\* group of one or two bytes is padded with "=".
RECURSIVE ToBase64(_)
ToBase64(bytes) ==
  LET A(i) == Base64Alphabet[i + 1]
      b1 == bytes[1]
      b2 == bytes[2]
      b3 == bytes[3]
  IN IF Len(bytes) = 0 THEN <<>>
     ELSE IF Len(bytes) = 1
       THEN <<A(b1 \div 4), A((b1 % 4) * 16), "=", "=">>
     ELSE IF Len(bytes) = 2
       THEN <<A(b1 \div 4), A((b1 % 4) * 16 + b2 \div 16), A((b2 % 16) * 4), "=">>
     ELSE <<A(b1 \div 4), A((b1 % 4) * 16 + b2 \div 16),
            A((b2 % 16) * 4 + b3 \div 64), A(b3 % 64)>>
          \o ToBase64(SubSeq(bytes, 4, Len(bytes)))

\* A parameter object is the sequence of its <<name, value>> pairs, in
\* insertion order; Object.keys lists the names in that order.
ObjectKeys(params) == [i \in 1..Len(params) |-> params[i][1]]

\* params[name]
Property(params, name) ==
  LET i == CHOOSE j \in 1..Len(params) : params[j][1] = name
  IN params[i][2]

\* Array.prototype.sort() without a comparator: ascending by code units.
RECURSIVE InsertSorted(_, _)
InsertSorted(sorted, name) ==
  IF Len(sorted) = 0 THEN <<name>>
  ELSE IF StringLess(name, Head(sorted)) THEN <<name>> \o sorted
  ELSE <<Head(sorted)>> \o InsertSorted(Tail(sorted), name)

RECURSIVE ArraySort(_)
ArraySort(names) ==
  IF Len(names) = 0 THEN <<>>
  ELSE InsertSorted(ArraySort(SubSeq(names, 1, Len(names) - 1)), names[Len(names)])

\* Mutant of generateKey: the names are not sorted.
generateKey_Unsorted(type, params) ==
  LET keys == ObjectKeys(params)
      parts == [i \in 1..Len(keys) |->
                  keys[i] \o <<":">> \o JSONstringify(Property(params, keys[i]))]
      sorted == Join(parts, <<"|">>)
  IN type \o <<":">> \o ToBase64(BufferFrom(sorted))

generateKey(type, params) ==
  LET keys == ArraySort(ObjectKeys(params))
      parts == [i \in 1..Len(keys) |->
                  keys[i] \o <<":">> \o JSONstringify(Property(params, keys[i]))]
      sorted == Join(parts, <<"|">>)
  IN type \o <<":">> \o ToBase64(BufferFrom(sorted))

(***************************************************************************)
(* CacheService (src/src/services/cache.ts): the SQL statements, as        *)
(* operators on the set of rows of table `cache`.  A row is                *)
(* [type, key, data, createdAt, expiresAt, size]; column id, which only    *)
(* has to be unique, is left out: see InsertOrReplace.                     *)
(***************************************************************************)
\* ms in a second: strftime('%s', 'now') * 1000
SecMs == 1000
\* ms in a day: 24 * 60 * 60 * 1000
DayMs == 86400000
\* the floor of the eviction batch: Math.max(100, deleteCount)
MinDeleteCount == 100

TypePaper == <<"p","a","p","e","r">>
TypeSearch == <<"s","e","a","r","c","h">>

\* strftime('%s', 'now') * 1000: the clock cut to whole seconds, in ms.
StrftimeNowMs(now) == (now \div SecMs) * SecMs

\* SELECT data FROM cache WHERE key = ? AND expiresAt > strftime('%s','now') * 1000
SelectLive(tbl, key, now) ==
  {r \in tbl : r.key = key /\ r.expiresAt > StrftimeNowMs(now)}

\* INSERT OR REPLACE: the rows that break a uniqueness constraint are
\* deleted, then the row is inserted.  Column key is UNIQUE.  Column id is
\* the PRIMARY KEY, `${type}_${Date.now()}_${random}`: a row of the same type
\* written in the same millisecond has the same id when the random suffixes
\* agree; idClash is that row, if any ({} or one row).
InsertOrReplace(tbl, row, idClash) ==
  (tbl \ ({r \in tbl : r.key = row.key} \cup idClash)) \cup {row}

\* The rows whose id may equal that of a row of this type written now.
IdClashChoices(tbl, type, now) ==
  {{}} \cup {{r} : r \in {x \in tbl : x.type = type /\ x.createdAt = now}}

\* Trigger cleanup_expired, and cleanup():
\* DELETE FROM cache WHERE expiresAt < strftime('%s', 'now') * 1000
DeleteExpired(tbl, now) == {r \in tbl : ~(r.expiresAt < StrftimeNowMs(now))}

\* SELECT SUM(size) FROM cache (NULL for no row, which the code reads as 0)
RECURSIVE TotalSize(_)
TotalSize(tbl) ==
  IF tbl = {} THEN 0
  ELSE LET r == CHOOSE x \in tbl : TRUE IN r.size + TotalSize(tbl \ {r})

\* Mutant of OldestFirst: ORDER BY createdAt DESC.
NewestFirst(tbl, limit) ==
  IF limit <= 0 THEN {{}}
  ELSE IF Cardinality(tbl) <= limit THEN {tbl}
  ELSE LET cut == CHOOSE c \in {r.createdAt : r \in tbl} :
                    /\ Cardinality({r \in tbl : r.createdAt >= c}) >= limit
                    /\ Cardinality({r \in tbl : r.createdAt > c}) < limit
           after == {r \in tbl : r.createdAt > cut}
           ties == {r \in tbl : r.createdAt = cut}
       IN {after \cup t : t \in {u \in SUBSET ties :
                                   Cardinality(u) = limit - Cardinality(after)}}

\* SELECT id FROM cache ORDER BY createdAt ASC LIMIT limit: every set of
\* rows the statement may select.  SQL leaves the order of rows with equal
\* createdAt open, so each choice among them is possible.  LIMIT 0 selects
\* no row.
OldestFirst(tbl, limit) ==
  IF limit <= 0 THEN {{}}
  ELSE IF Cardinality(tbl) <= limit THEN {tbl}
  ELSE LET cut == CHOOSE c \in {r.createdAt : r \in tbl} :
                    /\ Cardinality({r \in tbl : r.createdAt <= c}) >= limit
                    /\ Cardinality({r \in tbl : r.createdAt < c}) < limit
           before == {r \in tbl : r.createdAt < cut}
           ties == {r \in tbl : r.createdAt = cut}
       IN {before \cup t : t \in {u \in SUBSET ties :
                                    Cardinality(u) = limit - Cardinality(before)}}

\* Mutant of DeleteLimit: the batch size without its floor.
DeleteLimit_NoFloor(totalSize, ttlMs) == totalSize \div (10 * ttlMs)

\* Math.max(100, Math.floor(totalSize * 0.1 / this.ttl))
DeleteLimit(totalSize, ttlMs) ==
  LET deleteCount == totalSize \div (10 * ttlMs)
  IN IF deleteCount > MinDeleteCount THEN deleteCount ELSE MinDeleteCount

\* checkSize: the sets of rows it may delete ({} when the total is within
\* maxSize).
checkSize(tbl, max, ttlMs) ==
  LET totalSize == TotalSize(tbl)
  IN IF totalSize > max
     THEN OldestFirst(tbl, DeleteLimit(totalSize, ttlMs))
     ELSE {{}}

\* getStats
getStats(tbl, hits, misses) ==
  [hits |-> hits, misses |-> misses, size |-> TotalSize(tbl), entries |-> Cardinality(tbl)]

(***************************************************************************)
(* CacheService: the calls.                                                *)
(***************************************************************************)
NoCall == [type |-> <<>>, params |-> <<>>]
\* ret: the call (op, call), the value it returned (val: for a DELETE, the
\* number of rows it removed), whether set logged 'Cache set failed'
\* (warned), whether set replaced a row of its key (replaced), the rows
\* checkSize deleted (evicted), and the caller of a cache.js call.
NoRet == [op |-> "none", call |-> NoCall, val |-> Null, warned |-> FALSE,
          replaced |-> FALSE, evicted |-> {}, caller |-> 0]

\* The (type, params) pairs the callers pass.  The second is the first with
\* its parameters inserted in the other order.
Calls ==
  { [type |-> TypeSearch, params |-> << << <<"q">>, Str(<<"x">>) >>, << <<"n">>, Num(1) >> >>],
    [type |-> TypeSearch, params |-> << << <<"n">>, Num(1) >>, << <<"q">>, Str(<<"x">>) >> >>],
    [type |-> TypeSearch, params |-> << << <<"q">>, Str(<<"y">>) >>, << <<"y">>, Undefined >> >>] }

\* The calls of the bulk-fill scenario: one key per number.
FillCall(n) == [type |-> TypePaper, params |-> << << <<"i">>, Num(n) >> >>]

\* The values of the bulk-fill scenario: 1 byte, and just over half of
\* FillMaxSize, once serialized.
FillValues == {Num(7), Str([i \in 1..(FillMaxSize \div 2 - 1) |-> "x"])}

\* The key of each call.
KeyOf == [c \in Calls \cup {FillCall(n) : n \in 1..FillKeys} |-> generateKey(c.type, c.params)]

\* The values the callers cache: 1 byte and 3 bytes once serialized.
Values == {Num(7), Str(<<"a">>)}

\* The storage faults of one set call: none, the INSERT throws, or a
\* statement of checkSize throws.
Faults == {"none", "insert", "checkSize"}

\* The instants at which the clock is read.
Instants(ttlMs) ==
  {0, SubSecond, ttlMs + SubSecond + SubSecond \div 2, ttlMs + SecMs}

\* The value get returns at this instant, Null for a miss.
GetValue(tbl, call, now) ==
  LET rows == SelectLive(tbl, KeyOf[call], now)
  IN IF rows # {} THEN JSONparse((CHOOSE r \in rows : TRUE).data) ELSE Null

\* Mutant of get: a hit is counted as a miss too.
get_HitCountsMiss(call) ==
  LET key == KeyOf[call]
      rows == SelectLive(table, key, clock)
  IN /\ getCalls < MaxGets
     /\ getCalls' = getCalls + 1
     /\ hitCount' = IF rows # {} THEN hitCount + 1 ELSE hitCount
     /\ missCount' = missCount + 1
     /\ ret' = [NoRet EXCEPT !.op = "get", !.call = call,
                  !.val = IF rows # {} THEN JSONparse((CHOOSE r \in rows : TRUE).data)
                          ELSE Null]
     /\ UNCHANGED <<program, clock, table, maxSize, ttl, kvVars, keyVars, limVars, guardVars,
                    plainVars, serverVars>>

get(call) ==
  LET key == KeyOf[call]
      rows == SelectLive(table, key, clock)
  IN /\ getCalls < MaxGets
     /\ getCalls' = getCalls + 1
     /\ IF rows # {}
        THEN /\ hitCount' = hitCount + 1
             /\ missCount' = missCount
             /\ ret' = [NoRet EXCEPT !.op = "get", !.call = call,
                          !.val = JSONparse((CHOOSE r \in rows : TRUE).data)]
        ELSE /\ missCount' = missCount + 1
             /\ hitCount' = hitCount
             /\ ret' = [NoRet EXCEPT !.op = "get", !.call = call]
     /\ UNCHANGED <<program, clock, table, maxSize, ttl, kvVars, keyVars, limVars, guardVars,
                    plainVars, serverVars>>

set(call, data, fault, idClash) ==
  LET key == KeyOf[call]
      serialized == JSONstringify(data)
      now == clock
      size == ByteLength(serialized)
      row == [type |-> call.type, key |-> key, data |-> serialized,
              createdAt |-> now, expiresAt |-> now + ttl, size |-> size]
      inserted == DeleteExpired(InsertOrReplace(table, row, idClash), now)
      done == [NoRet EXCEPT !.op = "set", !.call = call, !.val = data,
                 !.replaced = ({r \in table : r.key = key} # {})]
  IN /\ idClash \in IdClashChoices(table, call.type, now)
     /\ CASE fault = "insert" ->
               /\ idClash = {}
               /\ table' = table
               /\ ret' = [done EXCEPT !.warned = TRUE, !.replaced = FALSE]
          [] fault = "checkSize" ->
               /\ table' = inserted
               /\ ret' = [done EXCEPT !.warned = TRUE]
          [] OTHER ->
               \E deleted \in checkSize(inserted, maxSize, ttl) :
                 /\ table' = inserted \ deleted
                 /\ ret' = [done EXCEPT !.evicted = deleted]
     /\ UNCHANGED <<program, clock, hitCount, missCount, maxSize, ttl, kvVars, keyVars,
                    getCalls, limVars, guardVars, plainVars, serverVars>>

\* Mutant of invalidate: DELETE FROM cache WHERE type = ?
invalidate_ByType(call) ==
  /\ table' = {r \in table : r.type # call.type}
  /\ ret' = [NoRet EXCEPT !.op = "invalidate", !.call = call,
               !.val = Num(Cardinality({r \in table : r.key = KeyOf[call]}))]
  /\ UNCHANGED <<program, clock, hitCount, missCount, maxSize, ttl, kvVars, keyVars, getCalls,
                 limVars, guardVars, handlerVars, plainVars, serverVars>>

invalidate(call) ==
  LET key == KeyOf[call]
  IN /\ table' = {r \in table : r.key # key}
     /\ ret' = [NoRet EXCEPT !.op = "invalidate", !.call = call,
                  !.val = Num(Cardinality({r \in table : r.key = key}))]
     /\ UNCHANGED <<program, clock, hitCount, missCount, maxSize, ttl, kvVars, keyVars,
                    getCalls, limVars, guardVars, handlerVars, plainVars, serverVars>>

invalidateType(type) ==
  /\ table' = {r \in table : r.type # type}
  /\ ret' = [NoRet EXCEPT !.op = "invalidateType", !.call = [NoCall EXCEPT !.type = type],
               !.val = Num(Cardinality({r \in table : r.type = type}))]
  /\ UNCHANGED <<program, clock, hitCount, missCount, maxSize, ttl, kvVars, keyVars, getCalls,
                 limVars, guardVars, handlerVars, plainVars, serverVars>>

\* Mutant of clear: only the expired rows are deleted.
clear_ExpiredOnly ==
  /\ table' = DeleteExpired(table, clock)
  /\ ret' = [NoRet EXCEPT !.op = "clear", !.val = Num(Cardinality(table))]
  /\ UNCHANGED <<program, clock, hitCount, missCount, maxSize, ttl, kvVars, keyVars, getCalls,
                 limVars, guardVars, handlerVars, plainVars, serverVars>>

clear ==
  /\ table' = {}
  /\ ret' = [NoRet EXCEPT !.op = "clear", !.val = Num(Cardinality(table))]
  /\ UNCHANGED <<program, clock, hitCount, missCount, maxSize, ttl, kvVars, keyVars, getCalls,
                 limVars, guardVars, handlerVars, plainVars, serverVars>>

cleanup ==
  /\ table' = DeleteExpired(table, clock)
  /\ ret' = [NoRet EXCEPT !.op = "cleanup",
               !.val = Num(Cardinality(table) - Cardinality(DeleteExpired(table, clock)))]
  /\ UNCHANGED <<program, clock, hitCount, missCount, maxSize, ttl, kvVars, keyVars, getCalls,
                 limVars, guardVars, handlerVars, plainVars, serverVars>>

\* Time passes between two calls.
Advance ==
  /\ \E t \in Instants(ttl) : t > clock /\ clock' = t
  /\ ret' = NoRet
  /\ UNCHANGED <<program, table, hitCount, missCount, maxSize, ttl, kvVars, keyVars, getCalls,
                 limVars, guardVars, handlerVars, plainVars, serverVars>>

(***************************************************************************)
(* cache.js (src/unnamed/part_002): the key/value cache of the server      *)
(* program.  A row of its table is [key, value, created_at], created_at in *)
(* seconds.  getCachedOrFetch awaits fetchFn, so other calls run between   *)
(* its lookup and its upsert.                                              *)
(***************************************************************************)
\* concurrent callers of getCachedOrFetch
MaxCallers == 2
\* ttlSeconds of search_papers (server.ts)
TtlSearch == 3600
\* ttlSeconds of read_cypher (server.ts)
TtlCypher == 300

Callers == 1..MaxCallers
KVKeys == {"search:q", "cypher:q"}
KVTtl == [k \in KVKeys |-> IF k = "search:q" THEN TtlSearch ELSE TtlCypher]
FetchValues == {"r1", "r2"}
NoValue == "(none)"
NoOut == [kind |-> "none", value |-> NoValue, fetched |-> NoValue, key |-> NoValue]
NoFrame == [key |-> NoValue, ttlSeconds |-> 0, now |-> 0]

\* The instants at which the server's clock is read.
KVInstants ==
  {0, SubSecond, TtlCypher * SecMs - SubSecond, TtlCypher * SecMs, TtlSearch * SecMs}

\* getStmt.get(key): SELECT value, created_at FROM cache WHERE key = ?
getStmt(rows, key) == {r \in rows : r.key = key}

\* Mutant of upsertStmt: a row is added and the key's earlier row is kept.
upsertStmt_KeepsOld(rows, key, value, now) ==
  rows \cup {[key |-> key, value |-> value, created_at |-> now]}

\* upsertStmt.run(key, value, now): INSERT OR REPLACE, key being the PRIMARY KEY
upsertStmt(rows, key, value, now) ==
  {r \in rows : r.key # key} \cup {[key |-> key, value |-> value, created_at |-> now]}

\* getCacheStats
getCacheStats(rows) == [entries |-> Cardinality(rows)]

\* Math.floor(Date.now() / 1000)
NowSeconds(ms) == ms \div SecMs

\* Whether getCachedOrFetch serves this row at second `now`.
Fresh(row, now, ttlSeconds) == now - row.created_at < ttlSeconds

\* getCachedOrFetch up to its await: the lookup, and a hit's return.
getCachedOrFetchStart(p, key, ttlSeconds) ==
  LET rows == getStmt(kv, key)
      now == NowSeconds(clock)
      row == CHOOSE r \in rows : TRUE
  IN /\ pc[p] = "idle"
     /\ IF rows # {} /\ Fresh(row, now, ttlSeconds)
        THEN /\ out' = [out EXCEPT ![p] = [NoOut EXCEPT !.kind = "returned",
                                              !.value = row.value, !.key = key]]
             /\ ret' = [NoRet EXCEPT !.op = "getCachedOrFetch", !.caller = p]
             /\ UNCHANGED <<pc, frame>>
        ELSE /\ pc' = [pc EXCEPT ![p] = "fetching"]
             /\ frame' = [frame EXCEPT ![p] = [key |-> key, ttlSeconds |-> ttlSeconds,
                                                now |-> now]]
             /\ out' = [out EXCEPT ![p] = NoOut]
             /\ ret' = NoRet
     /\ UNCHANGED <<program, clock, cacheState, kv, keyVars, getCalls, limVars, guardVars,
                    handlerVars, plainVars, serverVars>>

\* Mutant of getCachedOrFetchReject: the failure is stored under the key.
getCachedOrFetchReject_Caches(p) ==
  /\ pc[p] = "fetching"
  /\ pc' = [pc EXCEPT ![p] = "idle"]
  /\ frame' = [frame EXCEPT ![p] = NoFrame]
  /\ kv' = upsertStmt(kv, frame[p].key, "error", frame[p].now)
  /\ out' = [out EXCEPT ![p] = [NoOut EXCEPT !.kind = "threw", !.key = frame[p].key]]
  /\ ret' = NoRet
  /\ UNCHANGED <<program, clock, cacheState, keyVars, getCalls, limVars, guardVars,
                 handlerVars, plainVars, serverVars>>

\* fetchFn rejects: the error leaves getCachedOrFetch, nothing is stored.
getCachedOrFetchReject(p) ==
  /\ pc[p] = "fetching"
  /\ pc' = [pc EXCEPT ![p] = "idle"]
  /\ frame' = [frame EXCEPT ![p] = NoFrame]
  /\ out' = [out EXCEPT ![p] = [NoOut EXCEPT !.kind = "threw", !.key = frame[p].key]]
  /\ ret' = NoRet
  /\ UNCHANGED <<program, clock, cacheState, kv, keyVars, getCalls, limVars, guardVars,
                 handlerVars, plainVars, serverVars>>

\* fetchFn resolves with value: the upsert (which throws when the storage
\* write fails), then the return.
getCachedOrFetchResume(p, value, writeFails) ==
  /\ pc[p] = "fetching"
  /\ pc' = [pc EXCEPT ![p] = "idle"]
  /\ frame' = [frame EXCEPT ![p] = NoFrame]
  /\ IF writeFails
     THEN /\ kv' = kv
          /\ out' = [out EXCEPT ![p] = [NoOut EXCEPT !.kind = "threw", !.fetched = value,
                                           !.key = frame[p].key]]
     ELSE /\ kv' = upsertStmt(kv, frame[p].key, value, frame[p].now)
          /\ out' = [out EXCEPT ![p] = [NoOut EXCEPT !.kind = "returned", !.value = value,
                                           !.fetched = value, !.key = frame[p].key]]
  /\ ret' = NoRet
  /\ UNCHANGED <<program, clock, cacheState, keyVars, getCalls, limVars, guardVars,
                 handlerVars, plainVars, serverVars>>

\* clearCache: DELETE FROM cache
clearCache ==
  /\ kv' = {}
  /\ ret' = [NoRet EXCEPT !.op = "clearCache"]
  /\ UNCHANGED <<program, clock, cacheState, pc, frame, out, keyVars, getCalls, limVars,
                 guardVars, handlerVars, plainVars, serverVars>>

\* Time passes on the server.
Tick ==
  /\ \E t \in KVInstants : t > clock /\ clock' = t
  /\ ret' = NoRet
  /\ out' = [p \in Callers |-> NoOut]
  /\ UNCHANGED <<program, cacheState, kv, pc, frame, keyVars, getCalls, limVars, guardVars,
                 handlerVars, plainVars, serverVars>>

(***************************************************************************)
(* RateLimitService (src/src/services/rateLimit.ts): the token bucket of   *)
(* the tools program.  Its methods are synchronous, so each call is one    *)
(* step.                                                                   *)
(***************************************************************************)
\* config.burstSize of the limiter
BurstSize == 2
\* config.requestsPerMinute: the default of the tools program
RequestsPerMinute == 10
\* ms in a minute: the 60000 of refillRate
MinuteMs == 60000
\* isAllowed calls per key of a run that records them in hist
MaxLimCalls == BurstSize + 2

\* The keys callers pass; 'default' is the one the tool handlers use.
LimKeys == {"default", "k2"}
\* states.get(key) of a key that has no state (present = FALSE)
NoState == [present |-> FALSE, tokens |-> 0, lastRefill |-> 0]
NoHeaders == [limit |-> <<>>, remaining |-> <<>>, reset |-> <<>>]
\* lret: the call (op, key), what isAllowed returned (allowed), what
\* getRemaining returned (val), what getHeaders returned (headers), and of an
\* isAllowed call: whether it created the state (created), the tokens it
\* found (before), the elapsed time it computed and the tokens after the
\* refill step (refilled).
NoLimRet == [op |-> "none", key |-> "", allowed |-> FALSE, val |-> 0, headers |-> NoHeaders,
             created |-> FALSE, before |-> 0, elapsed |-> 0, refilled |-> 0]

\* Math.min
Min(a, b) == IF a <= b THEN a ELSE b
\* Math.max
Max(a, b) == IF a >= b THEN a ELSE b
\* Math.ceil(a / b), b > 0
CeilDiv(a, b) == -((-a) \div b)

\* Mutant of TokensToAdd: Math.ceil in place of Math.floor.
TokensToAdd_Ceil(elapsed) == CeilDiv(elapsed * RequestsPerMinute, MinuteMs)

\* Math.floor(elapsed * refillRate), refillRate = requestsPerMinute / 60000
TokensToAdd(elapsed) == (elapsed * RequestsPerMinute) \div MinuteMs

\* The refill step: Math.min(burstSize, tokens + tokensToAdd)
Refill(tokens, elapsed) == Min(BurstSize, tokens + TokensToAdd(elapsed))

\* The instants at which the limiter's clock is read: 1 ms, and halves of
\* one token's refill period.
LimInstants ==
  LET half == MinuteMs \div (2 * RequestsPerMinute)
  IN {0, 1} \cup {n * half : n \in 1..(2 * BurstSize)}

\* Mutant of NewState: the bucket starts one token short.
NewState_OneShort(now) == [present |-> TRUE, tokens |-> BurstSize - 1, lastRefill |-> now]

\* The state isAllowed creates for a key that has none.
NewState(now) == [present |-> TRUE, tokens |-> BurstSize, lastRefill |-> now]

\* Mutant of CanAllow: a request is allowed on an empty bucket.
CanAllow_OnEmpty(tokens) == tokens >= 0

\* if (state.tokens >= 1)
CanAllow(tokens) == tokens >= 1

\* isAllowed; `record` tells whether the run records its calls in hist.
isAllowed(key, record) ==
  LET now == clock
      created == ~states[key].present
      state == IF created THEN NewState(now) ELSE states[key]
      elapsed == now - state.lastRefill
      refilled == Refill(state.tokens, elapsed)
      allowed == CanAllow(refilled)
  IN /\ record => Len(hist[key]) < MaxLimCalls
     /\ states' = [states EXCEPT ![key] =
                     [present |-> TRUE,
                      tokens |-> IF allowed THEN refilled - 1 ELSE refilled,
                      lastRefill |-> now]]
     /\ lret' = [NoLimRet EXCEPT !.op = "isAllowed", !.key = key, !.allowed = allowed,
                   !.created = created, !.before = state.tokens, !.elapsed = elapsed,
                   !.refilled = refilled]
     /\ hist' = IF record
                THEN [hist EXCEPT ![key] = Append(@, [at |-> now, ok |-> allowed])]
                ELSE hist
     /\ ret' = NoRet
     /\ UNCHANGED <<program, clock, cacheState, kvVars, keyVars, getCalls, guardVars,
                    plainVars, serverVars>>

\* What getRemaining returns.
Remaining(key) ==
  IF ~states[key].present THEN BurstSize
  ELSE Refill(states[key].tokens, clock - states[key].lastRefill)

\* Mutant of getRemaining: the projection is stored.
getRemaining_Commits(key) ==
  /\ lret' = [NoLimRet EXCEPT !.op = "getRemaining", !.key = key, !.val = Remaining(key)]
  /\ states' = [states EXCEPT ![key] =
                  [present |-> TRUE, tokens |-> Remaining(key), lastRefill |-> clock]]
  /\ ret' = NoRet
  /\ UNCHANGED <<program, clock, cacheState, kvVars, keyVars, getCalls, hist, guardVars,
                 handlerVars, plainVars, serverVars>>

getRemaining(key) ==
  /\ lret' = [NoLimRet EXCEPT !.op = "getRemaining", !.key = key, !.val = Remaining(key)]
  /\ ret' = NoRet
  /\ UNCHANGED <<program, clock, cacheState, kvVars, keyVars, getCalls, states, hist,
                 guardVars, handlerVars, plainVars, serverVars>>

getHeaders(key) ==
  LET remaining == Remaining(key)
      resetMs == CeilDiv(MinuteMs, RequestsPerMinute)
  IN /\ lret' = [NoLimRet EXCEPT !.op = "getHeaders", !.key = key, !.val = remaining,
                   !.headers = [limit |-> NumberToString(BurstSize),
                                remaining |-> NumberToString(Max(0, remaining)),
                                reset |-> NumberToString(CeilDiv(clock, SecMs) + resetMs)]]
     /\ ret' = NoRet
     /\ UNCHANGED <<program, clock, cacheState, kvVars, keyVars, getCalls, states, hist,
                    guardVars, handlerVars, plainVars, serverVars>>

\* Mutant of reset: every key's state is dropped.
reset_All(key) ==
  /\ states' = [k \in LimKeys |-> NoState]
  /\ hist' = [k \in LimKeys |-> <<>>]
  /\ lret' = [NoLimRet EXCEPT !.op = "reset", !.key = key]
  /\ ret' = NoRet
  /\ UNCHANGED <<program, clock, cacheState, kvVars, keyVars, getCalls, guardVars, handlerVars,
                 plainVars, serverVars>>

reset(key) ==
  /\ states' = [states EXCEPT ![key] = NoState]
  /\ hist' = [hist EXCEPT ![key] = <<>>]
  /\ lret' = [NoLimRet EXCEPT !.op = "reset", !.key = key]
  /\ ret' = NoRet
  /\ UNCHANGED <<program, clock, cacheState, kvVars, keyVars, getCalls, guardVars, handlerVars,
                 plainVars, serverVars>>

clearLimits ==
  /\ states' = [k \in LimKeys |-> NoState]
  /\ hist' = [k \in LimKeys |-> <<>>]
  /\ lret' = [NoLimRet EXCEPT !.op = "clear"]
  /\ ret' = NoRet
  /\ UNCHANGED <<program, clock, cacheState, kvVars, keyVars, getCalls, guardVars, handlerVars,
                 plainVars, serverVars>>

\* The wall clock moves between two calls: forward, or backward when the
\* system time is set back (in the model, only while no key's tokens are
\* below 0, which bounds the token counts).
LimAdvance(backward) ==
  /\ \E t \in LimInstants :
       /\ t # clock
       /\ t < clock => (backward /\ \A k \in LimKeys : states[k].tokens >= 0)
       /\ clock' = t
  /\ lret' = NoLimRet
  /\ ret' = NoRet
  /\ UNCHANGED <<program, cacheState, kvVars, keyVars, getCalls, states, hist, guardVars,
                 handlerVars, plainVars, serverVars>>

InitLimiter ==
  /\ states = [k \in LimKeys |-> NoState]
  /\ lret = NoLimRet
  /\ hist = [k \in LimKeys |-> <<>>]

(***************************************************************************)
(* neo4j.ts: toPlainValue.  Besides numbers, strings, null and undefined,  *)
(* a JavaScript value here is a driver Integer, an array, or an object: a  *)
(* function from its own property names to values.                         *)
(***************************************************************************)
\* properties of a node, relationship or plain mapping the backend returns
MaxProps == 2

Integer(n) == [k |-> "int", n |-> n]
Arr(items) == [k |-> "arr", items |-> items]
Obj(props) == [k |-> "obj", props |-> props]
\* The TypeError of calling a method that a value does not have.
TypeError == [k |-> "TypeError"]
\* An object without own properties.
NoProps == [name \in {} |-> Null]

\* typeof value === 'object' && value !== null && name in value
In(name, value) == value.k = "obj" /\ name \in DOMAIN value.props

isNeo4jNode(value) ==
  In("labels", value) /\ In("properties", value) /\ In("identity", value)

isNeo4jRelationship(value) ==
  /\ In("type", value) /\ In("properties", value)
  /\ In("start", value) /\ In("end", value) /\ In("identity", value)

isNeo4jPath(value) ==
  In("start", value) /\ In("end", value) /\ In("segments", value)

\* value.name, of a value that is neither null nor undefined
Member(value, name) == IF In(name, value) THEN value.props[name] ELSE Undefined

RECURSIVE Thrown(_)
\* A TypeError raised anywhere in a conversion ends the whole call.
Thrown(result) ==
  \/ result.k = "TypeError"
  \/ result.k = "arr" /\ \E i \in DOMAIN result.items : Thrown(result.items[i])
  \/ result.k = "obj" /\ \E name \in DOMAIN result.props : Thrown(result.props[name])

RECURSIVE toPlainValue(_)
\* The name of an array index or of a string position.
IndexName(i) == <<"0", "1", "2", "3", "4", "5", "6", "7", "8", "9">>[i + 1]

\* toPlainObject: Object.entries(obj), each value converted.  The entries
\* of an array are its elements under their indices, those of a string its
\* characters, those of a driver Integer its low and high words; a number
\* has none, and Object.entries(null) throws.
toPlainObject(obj) ==
  CASE obj.k = "obj" -> Obj([name \in DOMAIN obj.props |-> toPlainValue(obj.props[name])])
    [] obj.k = "arr" ->
         Obj([name \in {IndexName(i - 1) : i \in DOMAIN obj.items} |->
                toPlainValue(obj.items[CHOOSE i \in DOMAIN obj.items : IndexName(i - 1) = name])])
    [] obj.k = "str" ->
         Obj([name \in {IndexName(i - 1) : i \in DOMAIN obj.s} |->
                Str(<<obj.s[CHOOSE i \in DOMAIN obj.s : IndexName(i - 1) = name]>>)])
    [] obj.k = "int" -> Obj([low |-> Num(obj.n), high |-> Num(0)])
    [] obj.k \in {"null", "undefined"} -> TypeError
    [] OTHER -> Obj(NoProps)

\* { name: value, ...props }: an entry of props called `name` overrides.
Spread(name, value, object) ==
  IF object.k = "TypeError" THEN TypeError ELSE Obj(object.props @@ (name :> value))

toPlainValue(value) ==
  IF value.k \in {"null", "undefined"} THEN Null
  ELSE IF value.k = "int" THEN Num(value.n)
  ELSE IF isNeo4jNode(value)
    THEN Spread("_labels", value.props["labels"], toPlainObject(value.props["properties"]))
  ELSE IF isNeo4jRelationship(value)
    THEN Spread("_type", value.props["type"], toPlainObject(value.props["properties"]))
  ELSE IF isNeo4jPath(value)
    THEN IF value.props["segments"].k # "arr" THEN TypeError
         ELSE LET segs == value.props["segments"].items
              IN Obj([start |-> toPlainValue(value.props["start"]),
                      end |-> toPlainValue(value.props["end"]),
                      segments |->
                        Arr([i \in DOMAIN segs |->
                               IF segs[i].k \in {"null", "undefined"} THEN TypeError
                               ELSE Obj([start |-> toPlainValue(Member(segs[i], "start")),
                                         relationship |->
                                           toPlainValue(Member(segs[i], "relationship")),
                                         end |-> toPlainValue(Member(segs[i], "end"))])])])
  ELSE IF value.k = "arr" THEN Arr([i \in DOMAIN value.items |-> toPlainValue(value.items[i])])
  ELSE IF value.k = "obj" THEN toPlainObject(value)
  ELSE value

(***************************************************************************)
(* The values a query returns, as the graph holds them, and the objects    *)
(* the driver hands to toPlainValue for them.                              *)
(***************************************************************************)
GNull == [g |-> "null"]
GUndefined == [g |-> "undefined"]
GInteger(n) == [g |-> "integer", n |-> n]
GString(s) == [g |-> "string", s |-> s]
GList(items) == [g |-> "list", items |-> items]
GMap(entries) == [g |-> "map", entries |-> entries]
GNode(id, labels, properties) ==
  [g |-> "node", id |-> id, labels |-> labels, properties |-> properties]
GRelationship(id, type, from, to, properties) ==
  [g |-> "relationship", id |-> id, type |-> type, from |-> from, to |-> to,
   properties |-> properties]
GSegment(start, relationship, end) ==
  [start |-> start, relationship |-> relationship, end |-> end]
GPath(start, segments, end) ==
  [g |-> "path", start |-> start, segments |-> segments, end |-> end]

RECURSIVE Driver(_)
\* The driver's object for a value: Node {identity, labels, properties,
\* elementId}, Relationship {identity, start, end, type, properties,
\* elementId}, Path {start, end, segments, length}, Integer, array, object.
Driver(v) ==
  CASE v.g = "null" -> Null
    [] v.g = "undefined" -> Undefined
    [] v.g = "integer" -> Integer(v.n)
    [] v.g = "string" -> Str(v.s)
    [] v.g = "list" -> Arr([i \in DOMAIN v.items |-> Driver(v.items[i])])
    [] v.g = "map" -> Obj([name \in DOMAIN v.entries |-> Driver(v.entries[name])])
    [] v.g = "node" ->
         Obj([identity |-> Integer(v.id),
              labels |-> Arr([i \in DOMAIN v.labels |-> Str(v.labels[i])]),
              properties |-> Obj([name \in DOMAIN v.properties |-> Driver(v.properties[name])]),
              elementId |-> Str(<<"e">>)])
    [] v.g = "relationship" ->
         Obj([identity |-> Integer(v.id),
              start |-> Integer(v.from),
              end |-> Integer(v.to),
              type |-> Str(v.type),
              properties |-> Obj([name \in DOMAIN v.properties |-> Driver(v.properties[name])]),
              elementId |-> Str(<<"e">>)])
    [] v.g = "path" ->
         Obj([start |-> Driver(v.start),
              end |-> Driver(v.end),
              segments |->
                Arr([i \in DOMAIN v.segments |->
                       Obj([start |-> Driver(v.segments[i].start),
                            relationship |-> Driver(v.segments[i].relationship),
                            end |-> Driver(v.segments[i].end)])]),
              length |-> Num(Len(v.segments))])

\* Every function from at most n of the names to the values.
FunsUpTo(names, values, n) ==
  UNION {[D -> values] : D \in {D \in SUBSET names : Cardinality(D) <= n}}

Paper == <<"P", "a", "p", "e", "r">>
Seed == <<"S", "e", "e", "d">>
Cites == <<"C", "I", "T", "E", "S">>

GScalars == {GNull, GInteger(7), GString(<<"X">>)}
PropNames == {"title", "year", "_labels", "_type"}
GProps == FunsUpTo(PropNames, GScalars, MaxProps)
GNodes == {GNode(1, L, P) : L \in {<<>>, <<Paper>>, <<Paper, Seed>>}, P \in GProps}
GRelationships == {GRelationship(2, Cites, 1, 3, P) : P \in GProps}

PaperX == GNode(1, <<Paper>>, [title |-> GString(<<"X">>)])
SeedNode == GNode(3, <<Seed>>, [year |-> GInteger(7)])
CitesRel == GRelationship(2, Cites, 1, 3, [year |-> GInteger(7)])
GPaths ==
  { GPath(PaperX, <<>>, PaperX),
    GPath(PaperX, <<GSegment(PaperX, CitesRel, SeedNode)>>, SeedNode),
    GPath(PaperX, <<GSegment(PaperX, CitesRel, SeedNode),
                    GSegment(SeedNode, CitesRel, PaperX)>>, PaperX) }

GItems == GScalars \cup {PaperX, CitesRel, GList(<<GInteger(7)>>)}
GLists == {GList(items) : items \in UNION {[1..n -> GItems] : n \in 0..2}}

\* The mappings of a query such as
\*   RETURN {labels: labels(n), properties: properties(n), identity: id(n)}
MapNames == {"a", "labels", "properties", "identity", "start", "end", "segments"}
GEntries == GScalars \cup {GMap([b |-> GInteger(7)]), GList(<<GString(<<"X">>)>>)}
GMaps == {GMap(m) : m \in FunsUpTo(MapNames, GEntries, MaxProps + 1)}

GValues ==
  {GUndefined} \cup GScalars \cup GNodes \cup GRelationships \cup GPaths
    \cup GLists \cup GMaps

NoPlain == [done |-> FALSE, value |-> GNull, result |-> Null]

\* One toPlainValue call on the driver's object for the value.
toPlainValueCall ==
  /\ ~pv.done
  /\ pv' = [pv EXCEPT !.done = TRUE, !.result = LET result == toPlainValue(Driver(pv.value))
                                      IN IF Thrown(result) THEN TypeError ELSE result]
  /\ UNCHANGED <<program, clock, cacheState, ret, kvVars, keyVars, getCalls, limVars,
                 guardVars, handlerVars, serverVars>>

(***************************************************************************)
(* neo4j.ts: the read-only query guard of the server program.              *)
(* executeReadQuery awaits the backend, its backoff sleep and the close of *)
(* its session, so it runs in several steps.                               *)
(***************************************************************************)
\* MAX_ROWS
MAX_ROWS == 1000
\* MAX_RETRY_ATTEMPTS
MAX_RETRY_ATTEMPTS == 3
\* INITIAL_RETRY_DELAY_MS
INITIAL_RETRY_DELAY_MS == 1000

UpperCase ==
  <<"A","B","C","D","E","F","G","H","I","J","K","L","M",
    "N","O","P","Q","R","S","T","U","V","W","X","Y","Z">>
LowerCase ==
  <<"a","b","c","d","e","f","g","h","i","j","k","l","m",
    "n","o","p","q","r","s","t","u","v","w","x","y","z">>
Range(f) == {f[i] : i \in DOMAIN f}

\* Mutant of LowerChar: the letter case is kept.
LowerChar_KeepsCase(c) == c

\* One character of String.prototype.toLowerCase, and of a match under the
\* regular-expression flag i.
LowerChar(c) ==
  IF c \in Range(UpperCase)
  THEN LowerCase[CHOOSE i \in DOMAIN UpperCase : UpperCase[i] = c]
  ELSE c

\* String.prototype.toLowerCase
toLowerCase(text) == [i \in DOMAIN text |-> LowerChar(text[i])]

\* \w of a regular expression
IsWordChar(c) == c \in Range(UpperCase) \cup Range(LowerCase) \cup Range(DigitChars) \cup {"_"}
\* \s of a regular expression
IsSpace(c) == c \in {" ", "\t", "\n"}

\* text has `part` at position i (1-based).
HasAt(text, i, part) ==
  /\ i >= 1
  /\ i + Len(part) - 1 <= Len(text)
  /\ \A j \in 1..Len(part) : text[i + j - 1] = part[j]

\* String.prototype.includes
includes(text, part) == \E i \in 1..(Len(text) + 1) : HasAt(text, i, part)

\* \b of a regular expression at the gap before position i.
WordBoundary(text, i) ==
  LET before == i > 1 /\ IsWordChar(text[i - 1])
      after == i <= Len(text) /\ IsWordChar(text[i])
  IN before # after

\* /\bword\b/i matches text at position i; word is in lower case.
WordAt(text, i, word) ==
  /\ HasAt(toLowerCase(text), i, word)
  /\ WordBoundary(text, i)
  /\ WordBoundary(text, i + Len(word))

\* WRITE_KEYWORDS, in the order of the list.  A pattern is /\\ba\\b/i (kind
\* "word"), /\\ba\\s+b\\b/i (kind "spaced") or /\\ba\\b[^)]*\\bb\\b/i (kind
\* "call"); a and b are given in lower case.
WRITE_KEYWORDS ==
  <<[source |-> "\\bCREATE\\b", kind |-> "word",
     a |-> <<"c","r","e","a","t","e">>, b |-> <<>>],
    [source |-> "\\bMERGE\\b", kind |-> "word",
     a |-> <<"m","e","r","g","e">>, b |-> <<>>],
    [source |-> "\\bSET\\b", kind |-> "word",
     a |-> <<"s","e","t">>, b |-> <<>>],
    [source |-> "\\bDELETE\\b", kind |-> "word",
     a |-> <<"d","e","l","e","t","e">>, b |-> <<>>],
    [source |-> "\\bREMOVE\\b", kind |-> "word",
     a |-> <<"r","e","m","o","v","e">>, b |-> <<>>],
    [source |-> "\\bDROP\\b", kind |-> "word",
     a |-> <<"d","r","o","p">>, b |-> <<>>],
    [source |-> "\\bDETACH\\b", kind |-> "word",
     a |-> <<"d","e","t","a","c","h">>, b |-> <<>>],
    [source |-> "\\bLOAD\\s+CSV\\b", kind |-> "spaced",
     a |-> <<"l","o","a","d">>, b |-> <<"c","s","v">>],
    [source |-> "\\bCALL\\b[^)]*\\bdbms\\b", kind |-> "call",
     a |-> <<"c","a","l","l">>, b |-> <<"d","b","m","s">>],
    [source |-> "\\bCALL\\b[^)]*\\bapoc\\.trigger\\b", kind |-> "call",
     a |-> <<"c","a","l","l">>, b |-> <<"a","p","o","c",".","t","r","i","g","g","e","r">>]>>

\* pattern.test(cypher)
PatternTest(p, text) ==
  LET low == toLowerCase(text)
  IN CASE p.kind = "word" -> \E i \in 1..Len(text) : WordAt(text, i, p.a)
       [] p.kind = "spaced" ->
            \E i \in 1..Len(text) : \E j \in (i + Len(p.a) + 1)..Len(text) :
              /\ HasAt(low, i, p.a) /\ WordBoundary(text, i)
              /\ \A m \in (i + Len(p.a))..(j - 1) : IsSpace(text[m])
              /\ HasAt(low, j, p.b) /\ WordBoundary(text, j + Len(p.b))
       [] OTHER ->
            \E i \in 1..Len(text) : \E j \in (i + Len(p.a))..Len(text) :
              /\ WordAt(text, i, p.a)
              /\ \A m \in (i + Len(p.a))..(j - 1) : text[m] # ")"
              /\ WordAt(text, j, p.b)

\* validateReadOnly: 0 when it returns, else the index of the pattern whose
\* source its error names (the first of the list that matches).
validateReadOnly(cypher) ==
  LET hits == {i \in DOMAIN WRITE_KEYWORDS : PatternTest(WRITE_KEYWORDS[i], cypher)}
  IN IF hits = {} THEN 0 ELSE CHOOSE i \in hits : \A j \in hits : i <= j

\* The queries callers pass, each with the sources of the write patterns it
\* contains (as a whole word, in any letter case), told by hand.
Queries ==
  { [text |-> <<"M","A","T","C","H"," ","(","n",")"," ","R","E","T","U","R","N"," ","n">>,
     blocked |-> {}],
    [text |-> <<"M","A","T","C","H"," ","(","n",")"," ","D","E","L","E","T","E"," ","n">>,
     blocked |-> {"\\bDELETE\\b"}],
    [text |-> <<"m","a","t","c","h"," ","(","n",")"," ","d","e","t","a","c","h"," ","d","e","l","e","t","e"," ","n">>,
     blocked |-> {"\\bDELETE\\b", "\\bDETACH\\b"}],
    [text |-> <<"M","e","r","g","e"," ","(","n",":","P",")">>,
     blocked |-> {"\\bMERGE\\b"}],
    [text |-> <<"R","E","T","U","R","N"," ","n",".","c","r","e","a","t","e","d">>,
     blocked |-> {}],
    [text |-> <<"M","A","T","C","H"," ","(","n",")"," ","s","E","t"," ","n",".","x","=","1">>,
     blocked |-> {"\\bSET\\b"}],
    [text |-> <<"R","E","T","U","R","N"," ","n",".","d","a","t","a","s","e","t">>,
     blocked |-> {}],
    [text |-> <<"l","o","a","d"," "," ","c","s","v"," ","F","R","O","M"," ","f">>,
     blocked |-> {"\\bLOAD\\s+CSV\\b"}],
    [text |-> <<"c","a","l","l"," ","d","b","m","s",".","i","n","f","o","(",")">>,
     blocked |-> {"\\bCALL\\b[^)]*\\bdbms\\b"}],
    [text |-> <<"C","A","L","L"," ","d","b",".","x","(",")"," ","Y","I","E","L","D"," ","d","b","m","s">>,
     blocked |-> {}],
    [text |-> <<"C","a","l","l"," ","a","p","o","c",".","t","r","i","g","g","e","r",".","a","d","d","(",")">>,
     blocked |-> {"\\bCALL\\b[^)]*\\bapoc\\.trigger\\b"}],
    [text |-> <<"d","r","o","p"," ","i","n","d","e","x"," ","i">>,
     blocked |-> {"\\bDROP\\b"}],
    [text |-> <<"C","R","E","A","T","E"," ","(","n",")">>,
     blocked |-> {"\\bCREATE\\b"}],
    [text |-> <<"m","a","t","c","h"," ","(","n",")"," ","R","e","m","o","v","e"," ","n",".","x">>,
     blocked |-> {"\\bREMOVE\\b"}] }

\* What validateReadOnly does with each query.
Validation == [q \in Queries |-> validateReadOnly(q.text)]

\* executeReadQuery calls per run
MaxQueries == 2
\* rows of a backend result beyond MAX_ROWS
ExtraRows == 2

\* The errors session.run rejects with, each with its class told by hand:
\* "connection" when the message speaks of the connection, a socket, a
\* timeout or an unavailable service, "query" otherwise.
BackendErrors ==
  { [message |-> <<"C","o","n","n","e","c","t","i","o","n"," ","r","e","f","u","s","e","d">>,
     class |-> "connection"],
    [message |-> <<"s","o","c","k","e","t"," ","h","a","n","g"," ","u","p">>,
     class |-> "connection"],
    [message |-> <<"Q","u","e","r","y"," ","T","I","M","E","O","U","T">>,
     class |-> "connection"],
    [message |-> <<"S","e","r","v","i","c","e","U","n","a","v","a","i","l","a","b","l","e">>,
     class |-> "connection"],
    [message |-> <<"c","o","n","n","e","c","t"," ","E","C","O","N","N","R","E","F","U","S","E","D">>,
     class |-> "connection"],
    [message |-> <<"r","e","a","d"," ","E","C","O","N","N","R","E","S","E","T">>,
     class |-> "connection"],
    [message |-> <<"I","n","v","a","l","i","d"," ","i","n","p","u","t">>,
     class |-> "query"],
    [message |-> <<"U","n","k","n","o","w","n"," ","f","u","n","c","t","i","o","n">>,
     class |-> "query"],
    [message |-> <<"C","o","n","e","c","t","i","o","n"," ","l","o","s","t">>,
     class |-> "query"] }

NoError == [message |-> <<>>, class |-> "none"]

\* isRetryableError
isRetryableError(error) ==
  LET message == toLowerCase(error.message)
  IN \/ includes(message, <<"c","o","n","n","e","c","t","i","o","n">>)
     \/ includes(message, <<"s","o","c","k","e","t">>)
     \/ includes(message, <<"t","i","m","e","o","u","t">>)
     \/ includes(message, <<"u","n","a","v","a","i","l","a","b","l","e">>)
     \/ includes(message, <<"e","c","o","n","n","r","e","f","u","s","e","d">>)
     \/ includes(message, <<"e","c","o","n","n","r","e","s","e","t">>)

\* Mutant of isRetryableError: every error is retried.
Retryable_All == [e \in BackendErrors |-> TRUE]

\* What isRetryableError says of each error.
Retryable == [e \in BackendErrors |-> isRetryableError(e)]

\* Mutant of slice: the element at `end` is taken too.
slice_Inclusive(array, start, end) == SubSeq(array, start + 1, Min(end + 1, Len(array)))

\* Array.prototype.slice(start, end)
slice(array, start, end) == SubSeq(array, start + 1, Min(end, Len(array)))

\* The lengths of the results session.run resolves with.
ResultLengths == {0, 2, MAX_ROWS - 1, MAX_ROWS, MAX_ROWS + 1, MAX_ROWS + ExtraRows}

\* result.records of a result of n records: record i holds the driver
\* Integer i under the key n.
Records(n) == [i \in 1..n |-> [keys |-> <<"n">>, n |-> Integer(i)]]

\* The rows executeReadQuery builds from result.records.
Rows(records) ==
  LET kept == slice(records, 0, MAX_ROWS)
  IN [i \in DOMAIN kept |->
        Obj([key \in Range(kept[i].keys) |-> toPlainValue(kept[i][key])])]

NoResult == [kind |-> "none", rows |-> <<>>, error |-> NoError, from |-> "", pattern |-> ""]
NoQuery == [text |-> <<>>, blocked |-> {}]
NoGuardCall ==
  [pc |-> "idle", query |-> NoQuery, attempt |-> 0, lastError |-> NoError,
   pending |-> "none", rows |-> <<>>, delay |-> 0, calls |-> 0]
NoMon ==
  [opened |-> 0, closed |-> 0, maxOpen |-> 0, runs |-> 0, sleeps |-> <<>>,
   attempts |-> <<>>, result |-> NoResult, probe |-> "none", checks |-> 0]

\* getDriver: "driver" when it returns the driver (creating it when there
\* is none), "null" when NEO4J_URI is not set, "throws" when neo4j.driver
\* rejects the URI.
getDriver ==
  IF driver # "null" THEN "driver"
  ELSE IF uri = "unset" THEN "null"
  ELSE IF uri = "malformed" THEN "throws"
  ELSE "driver"

\* Mutant of LoopContinues: one attempt more.
LoopContinues_OneMore(attempt) == attempt <= MAX_RETRY_ATTEMPTS

\* The condition of the retry loop.
LoopContinues(attempt) == attempt < MAX_RETRY_ATTEMPTS

\* Mutant of Backoff: the delay does not grow.
Backoff_Constant(attempt) == INITIAL_RETRY_DELAY_MS

\* The delay before the attempt after `attempt` (counted from 0).
Backoff(attempt) == INITIAL_RETRY_DELAY_MS * 2 ^ attempt

\* Mutant of CloseSession: the session is closed after a success only.
CloseSession_OnSuccessOnly(mon, pending) ==
  IF pending = "return" THEN [mon EXCEPT !.closed = @ + 1] ELSE mon

\* finally { await session.close() }, whatever the attempt ends with.
CloseSession(mon, pending) == [mon EXCEPT !.closed = @ + 1]

\* d.session(...) followed by session.run(...), up to its await.
OpenAndRun(mon) ==
  [mon EXCEPT !.opened = @ + 1,
              !.runs = @ + 1,
              !.maxOpen = Max(@, mon.opened + 1 - mon.closed)]

\* executeReadQuery, from its call to the await of the first session.run.
executeReadQuery(q) ==
  /\ gq.pc = "idle"
  /\ gq.calls < MaxQueries
  /\ LET d == getDriver
         call == [NoGuardCall EXCEPT !.query = q, !.calls = gq.calls + 1]
     IN /\ driver' = IF d = "driver" THEN "driver" ELSE driver
        /\ IF d = "throws"
           THEN /\ gq' = call
                /\ gmon' = [NoMon EXCEPT !.result = [NoResult EXCEPT !.kind = "threw",
                                                                    !.from = "neo4j.driver"]]
           ELSE IF d = "null"
           THEN /\ gq' = call
                /\ gmon' = [NoMon EXCEPT !.result = [NoResult EXCEPT !.kind = "threw",
                                                                    !.from = "executeReadQuery"]]
           ELSE IF Validation[q] # 0
           THEN /\ gq' = call
                /\ gmon' = [NoMon EXCEPT !.result =
                              [NoResult EXCEPT !.kind = "threw",
                                               !.from = "validateReadOnly",
                                               !.pattern = WRITE_KEYWORDS[Validation[q]].source]]
           ELSE /\ gq' = [call EXCEPT !.pc = "running"]
                /\ gmon' = OpenAndRun(NoMon)
  /\ UNCHANGED <<program, clock, cacheState, ret, kvVars, keyVars, getCalls, limVars, uri,
                 handlerVars, plainVars, serverVars>>

\* session.run resolves with n records: the rows are built, and the
\* finally block awaits session.close().
runResolves(n) ==
  /\ gq.pc = "running"
  /\ gq' = [gq EXCEPT !.pc = "closing", !.pending = "return", !.rows = Rows(Records(n))]
  /\ gmon' = [gmon EXCEPT !.attempts = Append(@, [error |-> NoError, n |-> n])]
  /\ UNCHANGED <<program, clock, cacheState, ret, kvVars, keyVars, getCalls, limVars, uri,
                 driver, handlerVars, plainVars, serverVars>>

\* Mutant of runRejects: the session is closed before the backoff sleep.
runRejects_ClosesFirst(e) ==
  /\ gq.pc = "running"
  /\ gmon' = [gmon EXCEPT !.attempts = Append(@, [error |-> e, n |-> 0]),
                          !.sleeps = IF Retryable[e] /\ gq.attempt < MAX_RETRY_ATTEMPTS - 1
                                     THEN Append(@, Backoff(gq.attempt))
                                     ELSE @,
                          !.closed = IF Retryable[e] /\ gq.attempt < MAX_RETRY_ATTEMPTS - 1
                                     THEN @ + 1
                                     ELSE @]
  /\ gq' = IF ~Retryable[e]
           THEN [gq EXCEPT !.lastError = e, !.pc = "closing", !.pending = "throw"]
           ELSE IF gq.attempt < MAX_RETRY_ATTEMPTS - 1
           THEN [gq EXCEPT !.lastError = e, !.pc = "sleeping", !.delay = Backoff(gq.attempt)]
           ELSE [gq EXCEPT !.lastError = e, !.pc = "closing", !.pending = "next"]
  /\ UNCHANGED <<program, clock, cacheState, ret, kvVars, keyVars, getCalls, limVars, uri,
                 driver, handlerVars, plainVars, serverVars>>

\* session.run rejects: the catch block, up to its await of the backoff
\* sleep or, without one, to the finally block's await of session.close().
runRejects(e) ==
  /\ gq.pc = "running"
  /\ gmon' = [gmon EXCEPT !.attempts = Append(@, [error |-> e, n |-> 0]),
                          !.sleeps = IF Retryable[e] /\ gq.attempt < MAX_RETRY_ATTEMPTS - 1
                                     THEN Append(@, Backoff(gq.attempt))
                                     ELSE @]
  /\ gq' = IF ~Retryable[e]
           THEN [gq EXCEPT !.lastError = e, !.pc = "closing", !.pending = "throw"]
           ELSE IF gq.attempt < MAX_RETRY_ATTEMPTS - 1
           THEN [gq EXCEPT !.lastError = e, !.pc = "sleeping", !.delay = Backoff(gq.attempt)]
           ELSE [gq EXCEPT !.lastError = e, !.pc = "closing", !.pending = "next"]
  /\ UNCHANGED <<program, clock, cacheState, ret, kvVars, keyVars, getCalls, limVars, uri,
                 driver, handlerVars, plainVars, serverVars>>

\* The backoff sleep ends after its delay; the finally block awaits
\* session.close().
sleepResolves ==
  /\ gq.pc = "sleeping"
  /\ clock' = clock + gq.delay
  /\ gq' = [gq EXCEPT !.pc = "closing", !.pending = "next"]
  /\ UNCHANGED <<program, cacheState, ret, kvVars, keyVars, getCalls, limVars, uri, driver,
                 gmon, handlerVars, plainVars, serverVars>>

\* session.close() resolves: the call returns its rows, throws, or goes to
\* its next attempt; after the last attempt it throws lastError.
sessionCloses ==
  /\ gq.pc = "closing"
  /\ LET mon == CloseSession(gmon, gq.pending)
     IN CASE gq.pending = "return" ->
               /\ gq' = [gq EXCEPT !.pc = "idle", !.pending = "none"]
               /\ gmon' = [mon EXCEPT !.result = [NoResult EXCEPT !.kind = "returned",
                                                                   !.rows = gq.rows]]
          [] gq.pending = "throw" ->
               /\ gq' = [gq EXCEPT !.pc = "idle", !.pending = "none"]
               /\ gmon' = [mon EXCEPT !.result = [NoResult EXCEPT !.kind = "threw",
                                                                   !.from = "session.run",
                                                                   !.error = gq.lastError]]
          [] OTHER ->
               IF LoopContinues(gq.attempt + 1)
               THEN /\ gq' = [gq EXCEPT !.pc = "running", !.pending = "none",
                                        !.attempt = @ + 1]
                    /\ gmon' = OpenAndRun(mon)
               ELSE /\ gq' = [gq EXCEPT !.pc = "idle", !.pending = "none", !.attempt = @ + 1]
                    /\ gmon' = [mon EXCEPT !.result = [NoResult EXCEPT !.kind = "threw",
                                                                        !.from = "session.run",
                                                                        !.error = gq.lastError]]
  /\ UNCHANGED <<program, clock, cacheState, ret, kvVars, keyVars, getCalls, limVars, uri,
                 driver, handlerVars, plainVars, serverVars>>

\* isNeo4jConnected, verifyConnectivity resolving (ok) or rejecting.  The
\* getDriver call stands before the try block.
isNeo4jConnected(ok) ==
  /\ gq.pc = "idle"
  /\ LET d == getDriver
     IN /\ driver' = IF d = "driver" THEN "driver" ELSE driver
        /\ gmon' = [NoMon EXCEPT !.probe = CASE d = "throws" -> "threw"
                                             [] d = "null" -> "false"
                                             [] OTHER -> IF ok THEN "true" ELSE "false",
                                 !.checks = IF d = "driver" THEN 1 ELSE 0]
  /\ UNCHANGED <<program, clock, cacheState, ret, kvVars, keyVars, getCalls, limVars, uri,
                 gq, handlerVars, plainVars, serverVars>>

\* closeDriver
closeDriver ==
  /\ gq.pc = "idle"
  /\ driver # "null"
  /\ driver' = "null"
  /\ UNCHANGED <<program, clock, cacheState, ret, kvVars, keyVars, getCalls, limVars, uri,
                 gq, gmon, handlerVars, plainVars, serverVars>>

InitGuard ==
  /\ uri = "unset"
  /\ driver = "null"
  /\ gq = NoGuardCall
  /\ gmon = NoMon

(***************************************************************************)
(* tools/index.ts: the tool handlers.  A handler runs without interruption *)
(* from its call to its await of the upstream service or to its return,    *)
(* and again from the answer to its return; other invocations run while it *)
(* awaits.                                                                 *)
(***************************************************************************)
\* The tools that consult the cache, and those that only consult the limiter.
CachedTools == {"search_papers", "get_paper"}
LimitedTools == {"get_authors", "get_citations", "get_references", "batch_fetch"}

\* The (type, params) a cached tool passes to the cache.
ToolCalls(tool) ==
  IF tool = "search_papers" THEN Calls
  ELSE IF tool = "get_paper" THEN {FillCall(1)}
  ELSE {NoCall}

\* Mutant of Truthy: no value counts as a hit.
Truthy_Never(value) == FALSE

\* if (cached): the truth value of a JavaScript value.
Truthy(value) ==
  ~ \/ value.k \in {"null", "undefined"}
    \/ value.k = "num" /\ value.n = 0
    \/ value.k = "str" /\ value.s = <<>>

\* Mutant of Proceeds: the handler goes on after a denial.
Proceeds_Always(allowed) == TRUE

\* if (!rateLimit.isAllowed()) return ...: the handler goes on when allowed.
Proceeds(allowed) == allowed

NoHandler == [pc |-> "idle", tool |-> "", call |-> NoCall]
NoOutcome == [kind |-> "none", body |-> "none", value |-> Null]
\* hmon: the calls one invocation made, in order (trace), what cache.get
\* and isAllowed returned to it, and what it returned.
NoTrace ==
  [trace |-> <<>>, looked |-> FALSE, cached |-> Null, checked |-> FALSE, allowed |-> FALSE,
   result |-> NoOutcome]

\* No invocation is in the middle of a run: between its cache lookup and
\* its limiter check, or about to return.
Settled == \A g \in Callers : hd[g].pc \notin {"missed", "done"}

\* The limiter check of an invocation, and what follows at once: the
\* throttling message, or the upstream request and its await.
AfterCheck(h, mon) ==
  LET allowed == lret'.allowed
      seen == [mon EXCEPT !.trace = Append(@, "isAllowed"), !.checked = TRUE,
                          !.allowed = allowed]
  IN IF Proceeds(allowed)
     THEN /\ hd' = [hd EXCEPT ![h].pc = "awaiting"]
          /\ hmon' = [hmon EXCEPT ![h] = [seen EXCEPT !.trace = Append(@, "upstream")]]
     ELSE /\ hd' = [hd EXCEPT ![h].pc = "done"]
          /\ hmon' = [hmon EXCEPT ![h] =
                        [seen EXCEPT !.result = [NoOutcome EXCEPT !.kind = "returned",
                                                                  !.body = "throttled"]]]

\* A cached tool is invoked: cache.get, and on a hit the return of the
\* cached value.
invokeCached(h, tool, call) ==
  /\ tool \in CachedTools
  /\ call \in ToolCalls(tool)
  /\ hd[h].pc = "idle"
  /\ Settled
  /\ get(call)
  /\ UNCHANGED wt
  /\ LET cached == ret'.val
         seen == [NoTrace EXCEPT !.trace = <<"cache.get">>, !.looked = TRUE,
                                 !.cached = cached]
     IN IF Truthy(cached)
        THEN /\ hd' = [hd EXCEPT ![h] = [pc |-> "done", tool |-> tool, call |-> call]]
             /\ hmon' = [hmon EXCEPT ![h] =
                           [seen EXCEPT !.result = [kind |-> "returned", body |-> "cached",
                                                    value |-> cached]]]
        ELSE /\ hd' = [hd EXCEPT ![h] = [pc |-> "missed", tool |-> tool, call |-> call]]
             /\ hmon' = [hmon EXCEPT ![h] = seen]

\* After a miss: rateLimit.isAllowed().
checkLimit(h) ==
  /\ hd[h].pc = "missed"
  /\ isAllowed("default", FALSE)
  /\ AfterCheck(h, hmon[h])
  /\ UNCHANGED wt

\* A tool without cache is invoked: rateLimit.isAllowed().
invokeLimited(h, tool) ==
  /\ tool \in LimitedTools
  /\ hd[h].pc = "idle"
  /\ Settled
  /\ isAllowed("default", FALSE)
  /\ UNCHANGED wt
  /\ LET started == [hd EXCEPT ![h] = [pc |-> "idle", tool |-> tool, call |-> NoCall]]
     IN IF Proceeds(lret'.allowed)
        THEN /\ hd' = [started EXCEPT ![h].pc = "awaiting"]
             /\ hmon' = [hmon EXCEPT ![h] =
                           [NoTrace EXCEPT !.trace = <<"isAllowed", "upstream">>,
                                           !.checked = TRUE, !.allowed = lret'.allowed]]
        ELSE /\ hd' = [started EXCEPT ![h].pc = "done"]
             /\ hmon' = [hmon EXCEPT ![h] =
                           [NoTrace EXCEPT !.trace = <<"isAllowed">>,
                                           !.checked = TRUE, !.allowed = lret'.allowed,
                                           !.result = [NoOutcome EXCEPT !.kind = "returned",
                                                                        !.body = "throttled"]]]

\* The upstream service answers: a cached tool stores the answer, and the
\* handler returns it.
upstreamResolves(h, value, fault, idClash) ==
  /\ hd[h].pc = "awaiting"
  /\ Settled
  /\ hd' = [hd EXCEPT ![h].pc = "done"]
  /\ UNCHANGED wt
  /\ IF hd[h].tool \in CachedTools
     THEN /\ set(hd[h].call, value, fault, idClash)
          /\ hmon' = [hmon EXCEPT ![h].trace = Append(@, "cache.set"),
                                  ![h].result = [kind |-> "returned", body |-> "fresh",
                                                 value |-> value]]
     ELSE /\ fault = "none" /\ idClash = {}
          /\ hmon' = [hmon EXCEPT ![h].result = [kind |-> "returned", body |-> "fresh",
                                                 value |-> value]]
          /\ UNCHANGED <<program, clock, cacheState, ret, kvVars, keyVars, getCalls, limVars,
                         guardVars, plainVars, serverVars>>

\* Mutant of upstreamRejects: the token taken for the request is given back.
upstreamRejects_Refunds(h) ==
  /\ hd[h].pc = "awaiting"
  /\ Settled
  /\ hd' = [hd EXCEPT ![h].pc = "done"]
  /\ UNCHANGED wt
  /\ hmon' = [hmon EXCEPT ![h].result = [NoOutcome EXCEPT !.kind = "returned",
                                                          !.body = "error"]]
  /\ states' = [states EXCEPT !["default"].tokens = @ + 1]
  /\ UNCHANGED <<program, clock, cacheState, ret, kvVars, keyVars, getCalls, lret, hist,
                 guardVars, plainVars, serverVars>>

\* The upstream service fails: the handler returns the error as its result.
upstreamRejects(h) ==
  /\ hd[h].pc = "awaiting"
  /\ Settled
  /\ hd' = [hd EXCEPT ![h].pc = "done"]
  /\ UNCHANGED wt
  /\ hmon' = [hmon EXCEPT ![h].result = [NoOutcome EXCEPT !.kind = "returned",
                                                          !.body = "error"]]
  /\ UNCHANGED <<program, clock, cacheState, ret, kvVars, keyVars, getCalls, limVars,
                 guardVars, plainVars, serverVars>>

\* The instants of the tool invocations: the start, and one token period later.
ToolInstants == {0, MinuteMs \div RequestsPerMinute}

\* The handler returns its result to the server.
returns(h) ==
  /\ hd[h].pc = "done"
  /\ hd' = [hd EXCEPT ![h] = NoHandler]
  /\ UNCHANGED wt
  /\ hmon' = [hmon EXCEPT ![h] = NoTrace]
  /\ ret' = NoRet
  /\ lret' = NoLimRet
  /\ UNCHANGED <<program, clock, cacheState, kvVars, keyVars, getCalls, states, hist,
                 guardVars, plainVars, serverVars>>

\* Time passes between two runs.
ToolsAdvance ==
  /\ Settled
  /\ \E t \in ToolInstants : t > clock /\ clock' = t
  /\ lret' = NoLimRet
  /\ ret' = NoRet
  /\ UNCHANGED <<program, cacheState, kvVars, keyVars, getCalls, states, hist, guardVars,
                 handlerVars, plainVars, serverVars>>

(***************************************************************************)
(* RateLimitService.waitForToken.  The call runs without interruption from *)
(* its start, or from the end of a sleep, to its next sleep or its return; *)
(* other calls run while it sleeps.  In the runs of waitForToken instants  *)
(* are counted from now: Date.now() reads 0, and when d ms pass every      *)
(* instant the program remembers moves d ms into the past.                 *)
(***************************************************************************)
\* the longest maxWaitMs a caller passes, in token periods
MaxWaitPeriods == 2

\* const msPerToken = 60000 / this.config.requestsPerMinute
msPerToken == MinuteMs \div RequestsPerMinute
\* The time that passes in one step: half a token period, or a whole one.
WaitSteps == {msPerToken \div 2, msPerToken}
\* The callers of waitForToken; those of isAllowed are not counted.
Waiters == {1, 2}
\* The key the callers of waitForToken and of isAllowed contend for.
WaitKeys == {"default"}
\* The maxWaitMs callers pass.
MaxWaits == {0, msPerToken + msPerToken \div 2, MaxWaitPeriods * msPerToken}

NoWaiter ==
  [pc |-> "idle", key |-> "", maxWaitMs |-> 0, startWait |-> 0, due |-> 0,
   result |-> "none", waited |-> 0]

\* Mutant of LoopTest: the loop goes on whatever time has passed.
LoopTest_Forever(now, startWait, maxWaitMs) == TRUE

\* while (Date.now() - startWait < maxWaitMs)
LoopTest(now, startWait, maxWaitMs) == now - startWait < maxWaitMs

\* The loop of waitForToken from its test to the next sleep or the return,
\* w being the caller and rec its locals.
WaitLoop(w, rec) ==
  IF LoopTest(clock, rec.startWait, rec.maxWaitMs)
  THEN /\ isAllowed(rec.key, FALSE)
       /\ UNCHANGED <<hd, hmon>>
       /\ IF lret'.allowed
          THEN wt' = [wt EXCEPT ![w] = [rec EXCEPT !.pc = "idle", !.result = "true",
                                                   !.waited = clock - rec.startWait,
                                                   !.startWait = 0, !.due = 0]]
          ELSE LET waitTime == IF states'[rec.key].present
                               THEN Min(msPerToken,
                                        rec.maxWaitMs - (clock - rec.startWait))
                               ELSE 100
               IN wt' = [wt EXCEPT ![w] = [rec EXCEPT !.pc = "sleeping",
                                                         !.due = clock + waitTime]]
  ELSE /\ wt' = [wt EXCEPT ![w] = [rec EXCEPT !.pc = "idle", !.result = "false",
                                              !.waited = clock - rec.startWait,
                                              !.startWait = 0, !.due = 0]]
       /\ lret' = NoLimRet
       /\ ret' = NoRet
       /\ UNCHANGED <<program, clock, cacheState, kvVars, keyVars, getCalls, states, hist,
                      guardVars, hd, hmon, plainVars, serverVars>>

\* waitForToken(key, maxWaitMs), up to its first sleep or its return.
waitForToken(w, key, maxWaitMs) ==
  /\ wt[w].pc = "idle"
  /\ WaitLoop(w, [NoWaiter EXCEPT !.key = key, !.maxWaitMs = maxWaitMs,
                                  !.startWait = clock])

\* The timer of a sleeping call fires, at its due time or later.
timerFires(w) ==
  /\ wt[w].pc = "sleeping"
  /\ wt[w].due <= clock
  /\ WaitLoop(w, wt[w])

\* An instant t of the past, after d more ms; instants older than `oldest`
\* ms are kept at that age, beyond which their age makes no difference.
Past(t, d, oldest) == Max(t - d, clock - oldest)

\* d ms pass.  No timer is more than one token period late.
Elapse(d) ==
  /\ \A w \in Callers : wt[w].pc = "sleeping" => wt[w].due - d >= clock - msPerToken
  /\ states' = [k \in LimKeys |->
                  IF states[k].present
                  THEN [states[k] EXCEPT !.lastRefill = Past(@, d, BurstSize * msPerToken)]
                  ELSE states[k]]
  /\ wt' = [w \in Callers |->
              IF wt[w].pc = "sleeping"
              THEN [wt[w] EXCEPT !.startWait = Past(@, d, (MaxWaitPeriods + 2) * msPerToken),
                                 !.due = @ - d]
              ELSE NoWaiter]
  /\ lret' = NoLimRet
  /\ ret' = NoRet
  /\ UNCHANGED <<program, clock, cacheState, kvVars, keyVars, getCalls, hist, guardVars, hd,
                 hmon, plainVars, serverVars>>

(***************************************************************************)
(* semantic-scholar.ts: throttle and throttledFetch.  throttle runs        *)
(* without interruption up to its sleep, and again from the end of the     *)
(* sleep; other callers run while it sleeps.                               *)
(***************************************************************************)
\* upstream fetches of one run
MaxFetches == 3
\* the 1000 of `elapsed < 1000` and of `1000 - elapsed`, in ms
ThrottleMs == 1000

\* The instants of the server's calls: from one throttle interval after the
\* epoch on, in sub-second steps.
ThrottleInstants == {ThrottleMs + n * SubSecond : n \in 0..(2 * MaxFetches)}

NoThrottle == [pc |-> "idle", due |-> 0]

\* return fetch(url, init): the upstream request starts.
startFetch(log, now) == Append(log, now)

\* throttledFetch, up to the sleep of throttle or, without one, to the fetch.
throttledFetch(p) ==
  LET now == clock
      elapsed == now - lastRequestTime
  IN /\ tq[p].pc = "idle"
     /\ Len(fetchAt) + Cardinality({q \in Callers : tq[q].pc = "sleeping"}) < MaxFetches
     /\ IF elapsed < ThrottleMs
        THEN /\ tq' = [tq EXCEPT ![p] = [pc |-> "sleeping",
                                          due |-> clock + (ThrottleMs - elapsed)]]
             /\ UNCHANGED <<lastRequestTime, fetchAt>>
        ELSE /\ lastRequestTime' = clock
             /\ fetchAt' = startFetch(fetchAt, clock)
             /\ tq' = tq
     /\ UNCHANGED <<program, clock, cacheState, ret, kvVars, keyVars, getCalls, limVars,
                    guardVars, handlerVars, plainVars, sk, sessionVars>>

\* The sleep of throttle ends, at its due time or later: lastRequestTime is
\* set and the fetch starts.
throttleWakes(p) ==
  /\ tq[p].pc = "sleeping"
  /\ tq[p].due <= clock
  /\ lastRequestTime' = clock
  /\ fetchAt' = startFetch(fetchAt, clock)
  /\ tq' = [tq EXCEPT ![p] = NoThrottle]
  /\ UNCHANGED <<program, clock, cacheState, ret, kvVars, keyVars, getCalls, limVars,
                 guardVars, handlerVars, plainVars, sk, sessionVars>>

\* Time passes on the server.
ThrottleTick ==
  /\ \E t \in ThrottleInstants : t > clock /\ clock' = t
  /\ UNCHANGED <<program, cacheState, ret, kvVars, keyVars, getCalls, limVars, guardVars,
                 handlerVars, plainVars, serverVars>>

InitThrottle ==
  /\ lastRequestTime = 0
  /\ tq = [p \in Callers |-> NoThrottle]
  /\ fetchAt = <<>>

(***************************************************************************)
(* server.ts: the cache keys of the tool handlers search_papers and        *)
(* read_cypher.  An object (params) is the sequence of its <<name, value>> *)
(* pairs; NoObject stands for an argument that was not given.              *)
(***************************************************************************)
NoObject == <<<<"(undefined)">>>>

\* `${b}` of a boolean
BooleanToString(b) == IF b THEN <<"t","r","u","e">> ELSE <<"f","a","l","s","e">>

\* JSON.stringify of an object whose values are numbers or strings.
StringifyObject(object) ==
  <<"{">>
  \o Join([i \in 1..Len(object) |->
             <<"\"">> \o object[i][1] \o <<"\"", ":">> \o JSONstringify(object[i][2])],
          <<",">>)
  \o <<"}">>

\* year || '' and params || {}
OrEmptyString(value) == IF value.k = "str" THEN value.s ELSE <<>>
OrEmptyObject(object) == IF object = NoObject THEN <<>> ELSE object

\* The arguments of the two tools, as the input schemas admit them.
SearchQueries == {<<"x">>, <<"x", ":", "2">>}
SearchYears == {Undefined, Str(<<>>), Str(<<"5">>), Str(<<"2", ":", "5">>)}
SearchLimits == {1, 10}
CypherQueries == {<<"q">>, <<"q", ":", "{", "}">>}
CypherParams == {NoObject, <<>>, <<<<<<"a">>, Num(1)>>>>}
NoArgs ==
  [query |-> <<>>, year |-> Undefined, limit |-> 0, openAccessOnly |-> FALSE,
   params |-> NoObject]
ToolArgs(tool) ==
  IF tool = "search_papers"
  THEN {[NoArgs EXCEPT !.query = q, !.year = y, !.limit = l, !.openAccessOnly = o] :
          q \in SearchQueries, y \in SearchYears, l \in SearchLimits, o \in BOOLEAN}
  ELSE {[NoArgs EXCEPT !.query = q, !.params = ps] :
          q \in CypherQueries, ps \in CypherParams}
NoInvocation == [tool |-> "", args |-> NoArgs, key |-> <<>>]

\* const cacheKey = `search:${query}:${year || ''}:${limit}:${openAccessOnly}`
\* const cacheKey = `cypher:${query}:${JSON.stringify(params || {})}`
cacheKey(tool, args) ==
  IF tool = "search_papers"
  THEN <<"s","e","a","r","c","h",":">> \o args.query \o <<":">>
       \o OrEmptyString(args.year) \o <<":">> \o NumberToString(args.limit) \o <<":">>
       \o BooleanToString(args.openAccessOnly)
  ELSE <<"c","y","p","h","e","r",":">> \o args.query \o <<":">>
       \o StringifyObject(OrEmptyObject(args.params))

\* What fetchFn computes the response from: searchPapers(API_KEY, query,
\* {year, limit, openAccessOnly}), which sends no year when it is empty;
\* executeReadQuery(query, params || {}).
Computation(tool, args) ==
  IF tool = "search_papers"
  THEN [tool |-> tool, query |-> args.query, year |-> OrEmptyString(args.year),
        limit |-> args.limit, openAccessOnly |-> args.openAccessOnly, params |-> <<>>]
  ELSE [tool |-> tool, query |-> args.query, year |-> <<>>, limit |-> 0,
        openAccessOnly |-> FALSE, params |-> OrEmptyObject(args.params)]

\* A handler is invoked and builds its cache key.
buildCacheKey(p, tool, args) ==
  /\ sk[p] = NoInvocation
  /\ sk' = [sk EXCEPT ![p] = [tool |-> tool, args |-> args, key |-> cacheKey(tool, args)]]
  /\ UNCHANGED <<program, clock, cacheState, ret, kvVars, keyVars, getCalls, limVars,
                 guardVars, handlerVars, plainVars, throttleVars, sessionVars>>

(***************************************************************************)
(* server.ts: the endpoints of /mcp and the Map `transports`.  The POST    *)
(* handler awaits server.connect before the transport handles the          *)
(* initialize request; the transport then calls onsessioninitialized with  *)
(* the id that sessionIdGenerator returned, and it calls onclose when it   *)
(* is closed (by a DELETE request, or when the server shuts down).         *)
(***************************************************************************)
\* session ids randomUUID() returns in one run
MaxSessions == 2

SessionIds == {NumberToString(n) : n \in 1..MaxSessions}
NoHeader == <<"(undefined)">>
\* req.headers['mcp-session-id']: absent, empty, or an id (any of those a
\* client may have been given, whether the table holds it or not).
Headers == SessionIds \cup {NoHeader, <<>>}
Bodies == {"initialize", "other"}

NoResponse == [route |-> "none", header |-> NoHeader, body |-> "other", status |-> 0]
\* sess: the ids for which onsessioninitialized and onclose have run, the
\* initialize requests awaiting server.connect or the transport, and the
\* last request with the status it was answered with (0 while it awaits).
NoSessions == [initialized |-> {}, closed |-> {}, connecting |-> 0, resp |-> NoResponse]

\* sessionId && ..., !sessionId: undefined and '' are falsy
Given(header) == header # NoHeader /\ header # <<>>

\* sessionId && transports.has(sessionId)
Has(header) == Given(header) /\ header \in transports

\* Mutant of Creates: an initialize request creates a session whatever its header.
Creates_AnyHeader(header, body) == body = "initialize"

\* !sessionId && isInitializeRequest(req.body)
Creates(header, body) == ~Given(header) /\ body = "initialize"

\* app.post('/mcp'), up to the transport's handling of the request or, for
\* a new transport, to the await of server.connect.
postMcp(header, body) ==
  /\ IF Has(header)
     THEN sess' = [sess EXCEPT !.resp = [route |-> "POST", header |-> header,
                                         body |-> body, status |-> 200]]
     ELSE IF Creates(header, body)
     THEN /\ sess.connecting < MaxCallers
          /\ sess' = [sess EXCEPT !.connecting = @ + 1,
                                  !.resp = [route |-> "POST", header |-> header,
                                            body |-> body, status |-> 0]]
     ELSE sess' = [sess EXCEPT !.resp = [route |-> "POST", header |-> header,
                                         body |-> body, status |-> 400]]
  /\ transports' = transports
  /\ UNCHANGED <<program, clock, cacheState, ret, kvVars, keyVars, getCalls, limVars,
                 guardVars, handlerVars, plainVars, throttleVars, sk>>

\* The new transport handles the initialize request: onsessioninitialized(sid).
sessionInitialized(sid) ==
  /\ sess.connecting > 0
  /\ sid \in SessionIds \ sess.initialized
  /\ transports' = transports \cup {sid}
  /\ sess' = [sess EXCEPT !.connecting = @ - 1, !.initialized = @ \cup {sid},
                          !.resp = NoResponse]
  /\ UNCHANGED <<program, clock, cacheState, ret, kvVars, keyVars, getCalls, limVars,
                 guardVars, handlerVars, plainVars, throttleVars, sk>>

\* server.connect or the transport's handling of the initialize request
\* fails: the catch block answers 500, the transport has no session id.
initializeFails ==
  /\ sess.connecting > 0
  /\ sess' = [sess EXCEPT !.connecting = @ - 1, !.resp = NoResponse]
  /\ transports' = transports
  /\ UNCHANGED <<program, clock, cacheState, ret, kvVars, keyVars, getCalls, limVars,
                 guardVars, handlerVars, plainVars, throttleVars, sk>>

\* transport.onclose
onclose(map, sid) == map \ {sid}

\* app.get('/mcp')
getMcp(header) ==
  /\ sess' = [sess EXCEPT !.resp = [route |-> "GET", header |-> header, body |-> "other",
                                    status |-> IF ~Given(header) \/ ~Has(header)
                                               THEN 400 ELSE 200]]
  /\ transports' = transports
  /\ UNCHANGED <<program, clock, cacheState, ret, kvVars, keyVars, getCalls, limVars,
                 guardVars, handlerVars, plainVars, throttleVars, sk>>

\* app.delete('/mcp'): the transport of a known session closes itself.
deleteMcp(header) ==
  /\ IF ~Given(header) \/ ~Has(header)
     THEN /\ sess' = [sess EXCEPT !.resp = [route |-> "DELETE", header |-> header,
                                            body |-> "other", status |-> 400]]
          /\ transports' = transports
     ELSE /\ sess' = [sess EXCEPT !.closed = @ \cup {header},
                                  !.resp = [route |-> "DELETE", header |-> header,
                                            body |-> "other", status |-> 200]]
          /\ transports' = onclose(transports, header)
  /\ UNCHANGED <<program, clock, cacheState, ret, kvVars, keyVars, getCalls, limVars,
                 guardVars, handlerVars, plainVars, throttleVars, sk>>

\* A session's transport is closed without a request.
transportCloses(sid) ==
  /\ sid \in sess.initialized \ sess.closed
  /\ sess' = [sess EXCEPT !.closed = @ \cup {sid}, !.resp = NoResponse]
  /\ transports' = onclose(transports, sid)
  /\ UNCHANGED <<program, clock, cacheState, ret, kvVars, keyVars, getCalls, limVars,
                 guardVars, handlerVars, plainVars, throttleVars, sk>>

InitHandlers ==
  /\ hd = [h \in Callers |-> NoHandler]
  /\ hmon = [h \in Callers |-> NoTrace]
  /\ wt = [w \in Callers |-> NoWaiter]

InitPlain == pv = NoPlain

InitServer ==
  /\ InitThrottle
  /\ sk = [p \in Callers |-> NoInvocation]
  /\ transports = {}
  /\ sess = NoSessions

(***************************************************************************)
(* Specifications.                                                         *)
(***************************************************************************)
NoKey == [type |-> <<>>, params |-> <<>>, builtFrom |-> <<>>, key |-> <<>>]

InitState ==
  /\ clock = 0
  /\ table = {}
  /\ hitCount = 0
  /\ missCount = 0
  /\ maxSize = CacheMaxSize
  /\ ttl = TtlDays * DayMs
  /\ ret = NoRet
  /\ kv = {}
  /\ pc = [p \in Callers |-> "idle"]
  /\ frame = [p \in Callers |-> NoFrame]
  /\ out = [p \in Callers |-> NoOut]
  /\ kb = NoKey
  /\ getCalls = 0
  /\ InitLimiter
  /\ InitGuard
  /\ InitHandlers
  /\ InitPlain
  /\ InitServer

\* The tools program: CacheService.
Init == program = "tools" /\ InitState

\* The calls of the tools program, its storage failing in the given ways.
NextWith(faults) ==
  \/ \E c \in Calls : get(c) /\ UNCHANGED handlerVars
  \/ \E c \in Calls, v \in Values, f \in faults :
       \E clash \in IdClashChoices(table, c.type, clock) :
         set(c, v, f, clash) /\ UNCHANGED handlerVars
  \/ \E c \in Calls : invalidate(c)
  \/ \E t \in {TypePaper, TypeSearch} : invalidateType(t)
  \/ clear
  \/ cleanup
  \/ Advance

Next == NextWith(Faults)

Spec == Init /\ [][Next]_vars

\* The tools program on a storage that never fails.
NextReliable == NextWith({"none"})

SpecReliable == Init /\ [][NextReliable]_vars

\* The tools program filling its cache up to the first eviction: one set
\* per millisecond, each under a key of its own.
FillTick ==
  /\ clock = 0 \/ (ret.op = "set" /\ ret.evicted = {})
  /\ clock < FillKeys
  /\ clock' = clock + 1
  /\ ret' = NoRet
  /\ UNCHANGED <<program, table, hitCount, missCount, maxSize, ttl, kvVars, keyVars, getCalls,
                 limVars, guardVars, handlerVars, plainVars, serverVars>>

FillSet ==
  /\ ret.op = "none"
  /\ clock >= 1
  /\ \E v \in FillValues : set(FillCall(clock), v, "none", {})
  /\ UNCHANGED handlerVars

InitFill ==
  /\ program = "tools"
  /\ kb = NoKey
  /\ getCalls = 0 /\ InitLimiter /\ InitGuard /\ InitHandlers /\ InitPlain /\ InitServer
  /\ clock = 0 /\ table = {} /\ hitCount = 0 /\ missCount = 0
  /\ maxSize = FillMaxSize
  /\ ttl = TtlDays * DayMs
  /\ ret = NoRet
  /\ kv = {}
  /\ pc = [p \in Callers |-> "idle"]
  /\ frame = [p \in Callers |-> NoFrame]
  /\ out = [p \in Callers |-> NoOut]

NextFill == FillTick \/ FillSet

SpecFill == InitFill /\ [][NextFill]_vars

\* The key builder on its own: a caller builds a parameter object, the key
\* is built from it, and the caller builds the same object in other
\* insertion orders.
KeyNames == {<<"n">>, <<"q">>, <<"q", "y">>}
KeyValues == {Num(1), Num(12), Str(<<"x">>), Undefined}

ParamObjects ==
  UNION {{ps \in [1..n -> KeyNames \X KeyValues] :
            \A i, j \in 1..n : i # j => ps[i][1] # ps[j][1]} : n \in 0..MaxKeyParams}

BuildKey ==
  /\ kb.key = <<>>
  /\ kb' = [kb EXCEPT !.key = generateKey(kb.type, kb.params), !.builtFrom = kb.params]
  /\ UNCHANGED <<program, clock, cacheState, ret, kvVars, getCalls, limVars, guardVars,
                 handlerVars, plainVars, serverVars>>

Reorder(i) ==
  /\ i + 1 <= Len(kb.params)
  /\ kb' = [kb EXCEPT !.params = [kb.params EXCEPT ![i] = kb.params[i + 1],
                                                     ![i + 1] = kb.params[i]]]
  /\ UNCHANGED <<program, clock, cacheState, ret, kvVars, getCalls, limVars, guardVars,
                 handlerVars, plainVars, serverVars>>

InitKey ==
  /\ program = "tools"
  /\ \E t \in {TypePaper, TypeSearch}, ps \in ParamObjects :
       kb = [NoKey EXCEPT !.type = t, !.params = ps]
  /\ getCalls = 0 /\ InitLimiter /\ InitGuard /\ InitHandlers /\ InitPlain /\ InitServer
  /\ clock = 0 /\ table = {} /\ hitCount = 0 /\ missCount = 0
  /\ maxSize = CacheMaxSize
  /\ ttl = TtlDays * DayMs
  /\ ret = NoRet
  /\ kv = {}
  /\ pc = [p \in Callers |-> "idle"]
  /\ frame = [p \in Callers |-> NoFrame]
  /\ out = [p \in Callers |-> NoOut]

NextKey == BuildKey \/ \E i \in 1..MaxKeyParams : Reorder(i)

SpecKey == InitKey /\ [][NextKey]_vars

\* The server program: cache.js.
InitKV == program = "server" /\ InitState

NextKV ==
  \/ \E p \in Callers, k \in KVKeys : getCachedOrFetchStart(p, k, KVTtl[k])
  \/ \E p \in Callers : getCachedOrFetchReject(p)
  \/ \E p \in Callers, v \in FetchValues, w \in BOOLEAN : getCachedOrFetchResume(p, v, w)
  \/ clearCache
  \/ Tick

SpecKV == InitKV /\ [][NextKV]_vars

\* The limiter of the tools program, called on the given keys, the wall
\* clock being set back or not, the isAllowed calls being recorded or not.
NextLimiterWith(keys, backward, record) ==
  \/ \E k \in keys : isAllowed(k, record) /\ UNCHANGED handlerVars
  \/ \E k \in keys : getRemaining(k)
  \/ \E k \in keys : getHeaders(k)
  \/ \E k \in keys : reset(k)
  \/ clearLimits
  \/ LimAdvance(backward)

\* Every key, any wall clock.
NextLimiter == NextLimiterWith(LimKeys, TRUE, FALSE)

SpecLimiter == Init /\ [][NextLimiter]_vars

\* The key of the tool handlers, its isAllowed calls recorded; any wall clock.
NextBucket == NextLimiterWith({"default"}, TRUE, TRUE)

SpecBucket == Init /\ [][NextBucket]_vars

\* The same, on a wall clock that never goes back.
NextBucketForward == NextLimiterWith({"default"}, FALSE, TRUE)

SpecBucketForward == Init /\ [][NextBucketForward]_vars

\* toPlainValue on each value a query can return.
InitPlainValue ==
  /\ program = "server"
  /\ \E v \in GValues : pv = [NoPlain EXCEPT !.value = v]
  /\ kb = NoKey
  /\ getCalls = 0 /\ InitLimiter /\ InitGuard /\ InitHandlers /\ InitServer
  /\ clock = 0 /\ table = {} /\ hitCount = 0 /\ missCount = 0
  /\ maxSize = CacheMaxSize
  /\ ttl = TtlDays * DayMs
  /\ ret = NoRet
  /\ kv = {}
  /\ pc = [p \in Callers |-> "idle"]
  /\ frame = [p \in Callers |-> NoFrame]
  /\ out = [p \in Callers |-> NoOut]

NextPlainValue == toPlainValueCall

SpecPlainValue == InitPlainValue /\ [][NextPlainValue]_vars

\* The query guard of the server program, NEO4J_URI being unset, a URI the
\* driver accepts, or one it rejects.
InitGuardCalls ==
  /\ program = "server"
  /\ uri \in {"unset", "valid", "malformed"}
  /\ driver = "null" /\ gq = NoGuardCall /\ gmon = NoMon
  /\ kb = NoKey
  /\ getCalls = 0 /\ InitLimiter /\ InitHandlers /\ InitPlain /\ InitServer
  /\ clock = 0 /\ table = {} /\ hitCount = 0 /\ missCount = 0
  /\ maxSize = CacheMaxSize
  /\ ttl = TtlDays * DayMs
  /\ ret = NoRet
  /\ kv = {}
  /\ pc = [p \in Callers |-> "idle"]
  /\ frame = [p \in Callers |-> NoFrame]
  /\ out = [p \in Callers |-> NoOut]

NextGuard ==
  \/ \E q \in Queries : executeReadQuery(q)
  \/ \E n \in ResultLengths : runResolves(n)
  \/ \E e \in BackendErrors : runRejects(e)
  \/ sleepResolves
  \/ sessionCloses
  \/ \E ok \in BOOLEAN : isNeo4jConnected(ok)
  \/ closeDriver

SpecGuard == InitGuardCalls /\ [][NextGuard]_vars

\* The tool handlers of the tools program, invoked concurrently, on a
\* storage that never fails.
NextTools ==
  \/ \E h \in Callers, tool \in CachedTools : \E call \in ToolCalls(tool) :
       invokeCached(h, tool, call)
  \/ \E h \in Callers : checkLimit(h)
  \/ \E h \in Callers, tool \in LimitedTools : invokeLimited(h, tool)
  \/ \E h \in Callers, v \in Values :
       \E clash \in IdClashChoices(table, hd[h].call.type, clock) :
         upstreamResolves(h, v, "none", clash)
  \/ \E h \in Callers : upstreamRejects(h)
  \/ \E h \in Callers : returns(h)
  \/ ToolsAdvance

SpecTools == Init /\ [][NextTools]_vars

\* The limiter with callers of waitForToken and of isAllowed, while time
\* passes without bound.
NextWait ==
  \/ \E w \in Waiters, k \in WaitKeys, m \in MaxWaits : waitForToken(w, k, m)
  \/ \E w \in Waiters : timerFires(w)
  \/ \E k \in WaitKeys : isAllowed(k, FALSE) /\ UNCHANGED handlerVars
  \/ \E d \in WaitSteps : Elapse(d)

SpecWait == Init /\ [][NextWait]_vars

\* The same, where time keeps passing, every due timer fires, and the
\* callers of isAllowed keep calling on key 'default'.
SpecWaitFair ==
  /\ SpecWait
  /\ WF_vars(\E d \in WaitSteps : Elapse(d))
  /\ \A w \in Waiters : WF_vars(timerFires(w))
  /\ WF_vars(isAllowed("default", FALSE) /\ UNCHANGED handlerVars)

\* The upstream throttle of the server program, its callers concurrent.
InitThrottled ==
  /\ program = "server"
  /\ clock = ThrottleMs
  /\ table = {} /\ hitCount = 0 /\ missCount = 0
  /\ maxSize = CacheMaxSize
  /\ ttl = TtlDays * DayMs
  /\ ret = NoRet
  /\ kv = {}
  /\ pc = [p \in Callers |-> "idle"]
  /\ frame = [p \in Callers |-> NoFrame]
  /\ out = [p \in Callers |-> NoOut]
  /\ kb = NoKey
  /\ getCalls = 0
  /\ InitLimiter /\ InitGuard /\ InitHandlers /\ InitPlain /\ InitServer

NextThrottle ==
  \/ \E p \in Callers : throttledFetch(p)
  \/ \E p \in Callers : throttleWakes(p)
  \/ ThrottleTick

SpecThrottle == InitThrottled /\ [][NextThrottle]_vars

\* The cache keys of the server's handlers, on every pair of invocations.
NextServerKey ==
  \E p \in Callers, tool \in {"search_papers", "read_cypher"} :
    \E args \in ToolArgs(tool) : buildCacheKey(p, tool, args)

SpecServerKey == InitKV /\ [][NextServerKey]_vars

\* The /mcp endpoints of the server program.
NextSessions ==
  \/ \E h \in Headers, b \in Bodies : postMcp(h, b)
  \/ \E sid \in SessionIds : sessionInitialized(sid)
  \/ initializeFails
  \/ \E h \in Headers : getMcp(h)
  \/ \E h \in Headers : deleteMcp(h)
  \/ \E sid \in SessionIds : transportCloses(sid)

SpecSessions == InitKV /\ [][NextSessions]_vars

\* Either program.
InitStores == program \in {"tools", "server"} /\ InitState

NextStores ==
  \/ program = "tools" /\ Next
  \/ program = "server" /\ NextKV

SpecStores == InitStores /\ [][NextStores]_vars

(***************************************************************************)
(* Properties.                                                             *)
(***************************************************************************)
\* The rows checkSize found in the table: those it left and those it deleted.
BeforeCheckSize == table \cup ret.evicted

\* A set call has just returned, and no statement of it threw.
SetReturned == ret.op = "set" /\ ~ret.warned

\* C1: a lookup returns a value only if a stored entry of its key has
\* expiresAt strictly later than the current time, in ms: for get of
\* CacheService, and for a hit of getCachedOrFetch (whose entry expires
\* ttlSeconds after created_at).
C1_NoExpiredEntrySurfaced ==
  /\ (ret.op = "get" /\ ret.val # Null) =>
       \E r \in table : r.key = KeyOf[ret.call] /\ r.expiresAt > clock
  /\ ret.op = "getCachedOrFetch" =>
       \E r \in kv : /\ r.key = out[ret.caller].key
                     /\ r.value = out[ret.caller].value
                     /\ (r.created_at + KVTtl[r.key]) * SecMs > clock

\* C2: when a set pushes the aggregate size over maxSize, the size that
\* getStats reports once the set has returned is at most maxSize.
C2_SizeWithinBudgetAfterSet ==
  (SetReturned /\ TotalSize(BeforeCheckSize) > maxSize) =>
    getStats(table, hitCount, missCount).size <= maxSize

\* C3: right after set(k, v) has returned, get(k) returns v.
C3_ReadYourWrite ==
  SetReturned => GetValue(table, ret.call, clock) = ret.val

\* C4: every entry the size check removes is at most as recent (createdAt)
\* as every entry that survives it.
C4_EvictionOldestFirst ==
  \A d \in ret.evicted : \A r \in table : d.createdAt <= r.createdAt

\* A size check has removed entries and left others.
C4_Witness == SetReturned /\ ret.evicted # {} /\ table # {}

\* C5: a set that leaves the aggregate size over maxSize removes at least
\* one entry, and a size check that finds the size within maxSize removes
\* none.
C5_EvictionProgress ==
  SetReturned =>
    /\ TotalSize(BeforeCheckSize) > maxSize =>
         /\ ret.evicted # {}
         /\ Cardinality(table) < Cardinality(BeforeCheckSize)
    /\ TotalSize(BeforeCheckSize) <= maxSize => ret.evicted = {}

\* A set found the size over maxSize and removed entries.
C5_Witness ==
  SetReturned /\ TotalSize(BeforeCheckSize) > maxSize /\ ret.evicted # {}

\* C6: the table holds at most one entry per key, and after a set on a key
\* that already had an entry, get reads the second value, whose entry
\* carries the createdAt, expiresAt and size of the second write.
C6_Overwrite ==
  /\ \A r1, r2 \in table : r1.key = r2.key => r1 = r2
  /\ (SetReturned /\ ret.replaced) =>
       /\ GetValue(table, ret.call, clock) = ret.val
       /\ \E r \in table : /\ r.key = KeyOf[ret.call]
                           /\ r.createdAt = clock
                           /\ r.expiresAt = clock + ttl
                           /\ r.size = ByteLength(JSONstringify(ret.val))

\* C7: a failed storage write never fails the call: set returns (with a
\* warning), and a getCachedOrFetch whose fetchFn resolved returns what
\* fetchFn computed.
C7_CacheFailureSwallowed ==
  /\ ret.warned => ret.op = "set"
  /\ \A p \in Callers :
       out[p].fetched # NoValue =>
         out[p].kind = "returned" /\ out[p].value = out[p].fetched

\* C8: the key built from a parameter object is the key built from the
\* same parameters in any other insertion order.
C8_KeyOrderIndependent ==
  kb.key # <<>> => kb.key = generateKey(kb.type, kb.params)

\* A key was built, and the object is now in another insertion order.
C8_Witness == kb.key # <<>> /\ kb.params # kb.builtFrom

C10_ClearRemovesAll ==
  /\ [](ret.op = "clear" =>
          /\ getStats(table, hitCount, missCount).entries = 0
          /\ getStats(table, hitCount, missCount).size = 0
          /\ \A c \in Calls : GetValue(table, c, clock) = Null)
  /\ [](ret.op = "clearCache" =>
          /\ getCacheStats(kv).entries = 0
          /\ \A k \in KVKeys : getStmt(kv, k) = {})
  /\ [][(table = {} /\ table' # {}) => ret'.op = "set"]_vars
  /\ [][(kv = {} /\ kv' # {}) =>
          \E p \in Callers : pc[p] = "fetching" /\ out'[p].kind = "returned"]_vars

\* clear has just deleted two entries.
C10_Witness == ret.op = "clear" /\ ret.val = Num(2)

\* C11: every get adds exactly one to exactly one counter, the hit counter
\* if and only if it returns a value and the miss counter otherwise; no
\* other operation changes a counter; so hits + misses is the number of get
\* calls made.
C11_HitMissAccounting ==
  /\ [](hitCount + missCount = getCalls)
  /\ [][getCalls' = getCalls + 1 =>
          /\ ret'.op = "get"
          /\ IF ret'.val # Null
             THEN hitCount' = hitCount + 1 /\ missCount' = missCount
             ELSE missCount' = missCount + 1 /\ hitCount' = hitCount]_vars
  /\ [][getCalls' = getCalls => (hitCount' = hitCount /\ missCount' = missCount)]_vars

\* A get has hit after another has missed.
C11_Witness == ret.op = "get" /\ ret.val # Null /\ hitCount = 1 /\ missCount = 1

\* C12: under every interleaving of the callers, each store holds at most
\* one row per key; every row that enters a store is the row one writer
\* wrote in full (its key, its whole value); and a value read for a key (a
\* hit of getCachedOrFetch, a hit of get) is the value of the row stored
\* under that key.
C12_NoTornValue ==
  /\ [](/\ \A r1, r2 \in kv : r1.key = r2.key => r1 = r2
        /\ \A r1, r2 \in table : r1.key = r2.key => r1 = r2
        /\ ret.op = "getCachedOrFetch" =>
             \E r \in kv : r.key = out[ret.caller].key /\ r.value = out[ret.caller].value
        /\ (ret.op = "get" /\ ret.val # Null) =>
             \E r \in table : r.key = KeyOf[ret.call] /\ JSONparse(r.data) = ret.val)
  /\ [][\A r \in kv' \ kv :
          \E p \in Callers : /\ pc[p] = "fetching" /\ pc'[p] = "idle"
                              /\ r.key = frame[p].key
                              /\ r.value \in FetchValues
                              /\ out'[p].fetched = r.value]_vars
  /\ [][\A r \in table' \ table :
          /\ ret'.op = "set"
          /\ r.key = KeyOf[ret'.call]
          /\ r.data = JSONstringify(ret'.val)]_vars

\* A caller reads a key under which two writers have stored different
\* values, and gets the one that another caller did not write.
C12_Witness ==
  /\ ret.op = "getCachedOrFetch"
  /\ \E p \in Callers : p # ret.caller /\ out[p].kind = "returned"
                          /\ out[p].fetched # NoValue
                          /\ out[p].key = out[ret.caller].key
                          /\ out[p].value # out[ret.caller].value

\* C13: whatever the calls made and whatever the wall clock returns, the
\* token count stored for a key is between 0 and burstSize.
C13_TokensWithinBounds ==
  \A k \in LimKeys :
    states[k].present => (0 <= states[k].tokens /\ states[k].tokens <= BurstSize)

\* The calls of isAllowed(key) that returned true since the key's state was
\* created, in order.
Admitted(key) == SelectSeq(hist[key], LAMBDA c : c.ok)

\* C14: isAllowed calls being atomic, between any two calls that returned
\* true since a key was fresh, T ms apart, at most
\* burstSize + T * requestsPerMinute / 60000 calls returned true (the two
\* included).
C14_NoOverAdmission ==
  \A k \in LimKeys :
    LET adm == Admitted(k)
    IN \A i \in 1..Len(adm) : \A j \in i..Len(adm) :
         (j - i + 1) * MinuteMs <=
           BurstSize * MinuteMs + (adm[j].at - adm[i].at) * RequestsPerMinute

\* More calls than burstSize have returned true, thanks to refills, and the
\* number admitted is exactly the budget of the time elapsed.
C14_Witness ==
  LET adm == Admitted("default")
  IN /\ Len(adm) > BurstSize
     /\ Len(adm) * MinuteMs =
          BurstSize * MinuteMs + (adm[Len(adm)].at - adm[1].at) * RequestsPerMinute

\* C15: of the isAllowed calls made on a key since its state was created,
\* all at the instant of the first, the first burstSize return true and the
\* next one returns false.
C15_BurstThenThrottle ==
  \A k \in LimKeys :
    LET h == hist[k]
    IN \A i \in 1..Len(h) :
         (\A j \in 1..i : h[j].at = h[1].at) =>
           /\ i <= BurstSize => h[i].ok
           /\ i = BurstSize + 1 => ~h[i].ok

\* burstSize + 1 calls were made at one instant on a fresh key.
C15_Witness ==
  LET h == hist["default"]
  IN /\ Len(h) = BurstSize + 1
     /\ \A j \in 1..Len(h) : h[j].at = h[1].at
     /\ lret.op = "isAllowed" /\ ~lret.allowed

\* C16: the refill step of every isAllowed call turns the token count into
\* min(burstSize, tokens + elapsedMs * requestsPerMinute / 60000), fractions
\* of a token included, and sets lastRefill to now.  (Both sides are
\* multiplied by 60000.)
C16_RefillFormula ==
  lret.op = "isAllowed" =>
    /\ lret.refilled * MinuteMs =
         Min(BurstSize * MinuteMs, lret.before * MinuteMs + lret.elapsed * RequestsPerMinute)
    /\ states[lret.key].lastRefill = clock

\* C17: when an isAllowed call on a key returns false and the next
\* isAllowed call on that key comes at least one token's refill period
\* (60000 / requestsPerMinute ms) later, that next call returns true.
C17_RefillAfterDenial ==
  \A k \in LimKeys :
    LET h == hist[k]
    IN \A i \in 1..(Len(h) - 1) :
         (~h[i].ok /\ (h[i + 1].at - h[i].at) * RequestsPerMinute >= MinuteMs) => h[i + 1].ok

\* C18: isAllowed returns true if and only if the token count after the
\* refill step is at least 1; it then stores that count less 1, and when it
\* returns false it stores that count as it is.
C18_AllowDenyDecision ==
  lret.op = "isAllowed" =>
    /\ lret.allowed <=> lret.refilled >= 1
    /\ lret.allowed => states[lret.key].tokens = lret.refilled - 1
    /\ ~lret.allowed => states[lret.key].tokens = lret.refilled

\* isAllowed has refused on a bucket that some time, too little, had gone
\* by for.
C18_Witness ==
  lret.op = "isAllowed" /\ ~lret.allowed /\ ~lret.created /\ lret.elapsed > 0

\* C19: getRemaining and getHeaders change no key's tokens or lastRefill,
\* create no state, and return burstSize for a key that has no state.
C19_GetRemainingReadOnly ==
  [][lret'.op \in {"getRemaining", "getHeaders"} =>
       /\ states' = states
       /\ ~states[lret'.key].present =>
            /\ lret'.val = BurstSize
            /\ lret'.op = "getHeaders" => lret'.headers.remaining = NumberToString(BurstSize)]_vars

\* getRemaining has returned more tokens than the state holds: the refill
\* it projected was not stored.
C19_Witness ==
  /\ lret.op = "getRemaining"
  /\ states[lret.key].present
  /\ lret.val > states[lret.key].tokens

\* C20: a key's state appears only through an isAllowed call on that key,
\* which starts it at burstSize tokens and acts as a first use (true, one
\* token taken, lastRefill = now), whether the key was never used or was
\* removed; it disappears only through reset of that key or clear; reset
\* leaves every other key's state as it was; clear removes every state.
C20_StateLifecycle ==
  [][/\ \A k \in LimKeys :
          /\ (~states[k].present /\ states'[k].present) =>
               /\ lret'.op = "isAllowed" /\ lret'.key = k
               /\ lret'.created /\ lret'.before = BurstSize
               /\ lret'.allowed
               /\ states'[k].tokens = BurstSize - 1
               /\ states'[k].lastRefill = clock
          /\ (states[k].present /\ ~states'[k].present) =>
               \/ lret'.op = "reset" /\ lret'.key = k
               \/ lret'.op = "clear"
     /\ lret'.op = "reset" =>
          /\ ~states'[lret'.key].present
          /\ \A k \in LimKeys \ {lret'.key} : states'[k] = states[k]
     /\ lret'.op = "clear" => \A k \in LimKeys : ~states'[k].present
     /\ (lret'.op = "isAllowed" /\ ~states[lret'.key].present) =>
          (lret'.created /\ states'[lret'.key].present)]_vars

\* reset has removed one key's state and left a used bucket of another key.
C20_Witness ==
  /\ lret.op = "reset"
  /\ ~states[lret.key].present
  /\ \E k \in LimKeys \ {lret.key} : states[k].present /\ states[k].tokens < BurstSize


(***************************************************************************)
(* toPlainValue.                                                           *)
(***************************************************************************)
RECURSIVE Normalized(_)
\* The normal form of a value: a node is its _labels and its normalized
\* properties, a relationship its _type and its normalized properties, a
\* path its normalized start, end and segments, an integer a number,
\* null and undefined are null, lists and mappings are normalized
\* element by element.
Normalized(v) ==
  CASE v.g \in {"null", "undefined"} -> Null
    [] v.g = "integer" -> Num(v.n)
    [] v.g = "string" -> Str(v.s)
    [] v.g = "list" -> Arr([i \in DOMAIN v.items |-> Normalized(v.items[i])])
    [] v.g = "map" -> Obj([name \in DOMAIN v.entries |-> Normalized(v.entries[name])])
    [] v.g = "node" ->
         Obj(("_labels" :> Arr([i \in DOMAIN v.labels |-> Str(v.labels[i])]))
               @@ [name \in DOMAIN v.properties |-> Normalized(v.properties[name])])
    [] v.g = "relationship" ->
         Obj(("_type" :> Str(v.type))
               @@ [name \in DOMAIN v.properties |-> Normalized(v.properties[name])])
    [] v.g = "path" ->
         Obj([start |-> Normalized(v.start),
              end |-> Normalized(v.end),
              segments |->
                Arr([i \in DOMAIN v.segments |->
                       Obj([start |-> Normalized(v.segments[i].start),
                            relationship |-> Normalized(v.segments[i].relationship),
                            end |-> Normalized(v.segments[i].end)])])])

\* C27: toPlainValue gives every value its normal form: a node its _labels
\* and normalized properties, a relationship its _type and normalized
\* properties, a path its normalized start, end and segments, a driver
\* integer a number, null and undefined null, lists and plain mappings
\* their elements normalized.
C27_Normalization == pv.done => pv.result = Normalized(pv.value)

(***************************************************************************)
(* The query guard.                                                        *)
(***************************************************************************)
\* An executeReadQuery call is in progress, or is the last thing the guard did.
QueryCalled == gq.pc # "idle" \/ gmon.result.kind # "none"

\* C21: with a backend configured, a query that holds a blocked write
\* pattern, in any letter case, ends executeReadQuery with the validation
\* error naming one of its patterns; no session is opened, session.run is
\* never called, and there is no attempt, retry or backoff sleep.
C21_ValidationBlocks ==
  (QueryCalled /\ uri = "valid" /\ gq.query.blocked # {}) =>
    /\ gq.pc = "idle"
    /\ gmon.result.kind = "threw"
    /\ gmon.result.from = "validateReadOnly"
    /\ gmon.result.pattern \in gq.query.blocked
    /\ gmon.opened = 0
    /\ gmon.runs = 0
    /\ gmon.attempts = <<>>
    /\ gmon.sleeps = <<>>

\* "match (n) detach delete n" was refused for its DELETE.
C21_Witness ==
  /\ uri = "valid"
  /\ gq.query.text = <<"m","a","t","c","h"," ","(","n",")"," ","d","e","t","a","c","h"," ","d","e","l","e","t","e"," ","n">>
  /\ gmon.result.kind = "threw"
  /\ gmon.result.pattern = "\\bDELETE\\b"
  /\ gmon.runs = 0

\* The attempts of the call that failed before its last one.
Retried == {i \in DOMAIN gmon.attempts : i < Len(gmon.attempts)}

\* C22: an attempt is followed by a sleep or by another attempt only if its
\* error is connection-class; an attempt failing with any other error is
\* the last one, no sleep follows it, and the call throws that error.
C22_RetryEligibility ==
  /\ \A i \in Retried : gmon.attempts[i].error.class = "connection"
  /\ Len(gmon.sleeps) <=
       Cardinality({i \in DOMAIN gmon.attempts : gmon.attempts[i].error.class = "connection"})
  /\ \A i \in DOMAIN gmon.attempts :
       gmon.attempts[i].error.class = "query" =>
         /\ i = Len(gmon.attempts)
         /\ gmon.runs = i
         /\ Len(gmon.sleeps) = i - 1
         /\ gq.pc \in {"closing", "idle"}
         /\ gq.pc = "closing" => gq.pending = "throw"
         /\ gq.pc = "idle" =>
              gmon.result.kind = "threw" /\ gmon.result.error = gmon.attempts[i].error

\* "Query TIMEOUT" was retried; "Conection lost" then ended the call.
C22_Witness ==
  /\ gq.pc = "idle"
  /\ Len(gmon.attempts) = 2
  /\ gmon.attempts[1].error.message = <<"Q","u","e","r","y"," ","T","I","M","E","O","U","T">>
  /\ gmon.attempts[2].error.message = <<"C","o","n","e","c","t","i","o","n"," ","l","o","s","t">>
  /\ gmon.result.kind = "threw"
  /\ gmon.result.error = gmon.attempts[2].error
  /\ gmon.sleeps = <<1000>>

\* C23: a call makes at most 3 attempts; nothing follows a successful
\* attempt, whose result the call returns; a call whose last attempt
\* failed throws the error of that attempt.
C23_RetryCeiling ==
  /\ Len(gmon.attempts) <= 3
  /\ gmon.runs <= 3
  /\ \A i \in Retried : gmon.attempts[i].error # NoError
  /\ (gq.pc = "idle" /\ gmon.attempts # <<>>) =>
       LET last == gmon.attempts[Len(gmon.attempts)]
       IN IF last.error = NoError
          THEN /\ gmon.result.kind = "returned"
               /\ Len(gmon.result.rows) = Min(last.n, MAX_ROWS)
          ELSE /\ gmon.result.kind = "threw"
               /\ gmon.result.error = last.error
               /\ last.error.class = "connection" => Len(gmon.attempts) = 3

\* Two connection errors, then a result of 2 rows, returned.
C23_Witness ==
  /\ gq.pc = "idle"
  /\ Len(gmon.attempts) = 3
  /\ gmon.attempts[1].error.class = "connection"
  /\ gmon.attempts[2].error.class = "connection"
  /\ gmon.attempts[3] = [error |-> NoError, n |-> 2]
  /\ gmon.runs = 3
  /\ gmon.result.kind = "returned"
  /\ Len(gmon.result.rows) = 2

\* C24: the sleep after failed attempt n lasts 1000 * 2^(n-1) ms; one sleep
\* stands between two attempts, and none follows the third attempt.
C24_BackoffSchedule ==
  /\ [](/\ \A i \in DOMAIN gmon.sleeps : gmon.sleeps[i] = 1000 * 2 ^ (i - 1)
        /\ Len(gmon.sleeps) <= 2
        /\ Len(gmon.sleeps) \in {gmon.runs - 1, Len(gmon.attempts)}
        /\ Len(gmon.attempts) = 3 => Len(gmon.sleeps) = 2
        /\ gq.pc = "sleeping" =>
             /\ Len(gmon.attempts) < 3
             /\ Len(gmon.sleeps) = Len(gmon.attempts)
             /\ gq.delay = gmon.sleeps[Len(gmon.attempts)])
  /\ [][(gq.pc = "sleeping" /\ gq'.pc # "sleeping") =>
          clock' = clock + 1000 * 2 ^ (Len(gmon.attempts) - 1)]_vars

\* Three connection errors: sleeps of 1000 and 2000 ms, and the error thrown.
C24_Witness ==
  /\ gq.pc = "idle"
  /\ gq.calls = 1
  /\ Len(gmon.attempts) = 3
  /\ gmon.sleeps = <<1000, 2000>>
  /\ gmon.result.kind = "threw"
  /\ clock = 3000

\* C25: the sessions opened are as many as the attempts made, at most one
\* is open at a time, and none is open once the call has returned or thrown.
C25_SessionDiscipline ==
  /\ gmon.opened = gmon.runs
  /\ gmon.opened = Len(gmon.attempts) + (IF gq.pc = "running" THEN 1 ELSE 0)
  /\ gmon.opened - gmon.closed \in {0, 1}
  /\ gmon.maxOpen <= 1
  /\ gq.pc = "idle" => gmon.closed = gmon.opened
  /\ gq.pc # "idle" => gmon.opened - gmon.closed = 1

\* A call that threw a query error on its second attempt: 2 sessions, both closed.
C25_Witness ==
  /\ gq.pc = "idle"
  /\ gmon.result.kind = "threw"
  /\ gmon.result.error.class = "query"
  /\ gmon.opened = 2
  /\ gmon.closed = 2

\* C26: a call that returns, returns the first min(n, 1000) records of the
\* backend's n, in their order, each converted; a successful attempt is
\* never turned into an error.
C26_RowCap ==
  (gq.pc = "idle" /\ gmon.attempts # <<>>
     /\ gmon.attempts[Len(gmon.attempts)].error = NoError) =>
    LET n == gmon.attempts[Len(gmon.attempts)].n
        m == IF n < 1000 THEN n ELSE 1000
    IN /\ gmon.result.kind = "returned"
       /\ Len(gmon.result.rows) = m
       /\ \A i \in 1..m : gmon.result.rows[i] = Obj([n |-> Num(i)])

\* A result of more than 1000 records, returned as its first 1000.
C26_Witness ==
  /\ gq.pc = "idle"
  /\ gmon.result.kind = "returned"
  /\ gmon.attempts[Len(gmon.attempts)].n = MAX_ROWS + ExtraRows
  /\ Len(gmon.result.rows) = 1000
  /\ gmon.result.rows[1000] = Obj([n |-> Num(1000)])

\* C28: isNeo4jConnected never throws: it returns false when NEO4J_URI is
\* not set or verifyConnectivity fails, true otherwise, after at most one
\* verifyConnectivity call and without any sleep.
C28_ProbeNeverThrows ==
  /\ gmon.probe \in {"none", "true", "false"}
  /\ gmon.probe # "none" =>
       /\ gmon.checks <= 1
       /\ gmon.sleeps = <<>>
       /\ uri = "unset" => gmon.probe = "false"
       /\ gmon.probe = "true" => gmon.checks = 1

(***************************************************************************)
(* The tool handlers.                                                      *)
(***************************************************************************)
\* C29: a search_papers or get_paper invocation calls cache.get first and
\* the limiter only after it; when cache.get returned a value the
\* invocation made no other call (no isAllowed, no upstream request),
\* returned that value, and left the limiter's state as it was.
C29_CacheBeforeLimiter ==
  /\ [](\A h \in Callers :
          (hd[h].tool \in CachedTools /\ hmon[h].trace # <<>>) =>
            /\ hmon[h].trace[1] = "cache.get"
            /\ hmon[h].looked
            /\ hmon[h].cached # Null =>
                 /\ hmon[h].trace = <<"cache.get">>
                 /\ ~hmon[h].checked
                 /\ hd[h].pc = "done"
                 /\ hmon[h].result = [kind |-> "returned", body |-> "cached",
                                      value |-> hmon[h].cached])
  /\ [][\A h \in Callers :
          (hmon'[h] # hmon[h] /\ hmon'[h].looked /\ hmon'[h].cached # Null) =>
            states' = states]_vars

\* A hit served while the bucket is empty.
C29_Witness ==
  \E h \in Callers :
    /\ hd[h].tool = "search_papers"
    /\ hmon[h].result.body = "cached"
    /\ hmon[h].trace = <<"cache.get">>
    /\ states["default"].present
    /\ states["default"].tokens = 0

\* C30: an invocation to which isAllowed returned false returns the
\* throttling message as its result; it has made no upstream request and
\* no cache.set, and the step of the denial leaves the cache as it was.
C30_DenialIsResult ==
  /\ [](\A h \in Callers :
          (hmon[h].checked /\ ~hmon[h].allowed) =>
            /\ hd[h].pc = "done"
            /\ hmon[h].result = [kind |-> "returned", body |-> "throttled", value |-> Null]
            /\ hmon[h].trace \in {<<"isAllowed">>, <<"cache.get", "isAllowed">>})
  /\ [][\A h \in Callers :
          (hmon'[h] # hmon[h] /\ hmon'[h].checked /\ ~hmon'[h].allowed) =>
            table' = table]_vars

\* search_papers throttled after a miss, the cache holding another entry,
\* while a get_authors invocation awaits its answer.
C30_Witness ==
  \E h, g \in Callers :
    /\ hd[h].tool = "search_papers"
    /\ hmon[h].trace = <<"cache.get", "isAllowed">>
    /\ hmon[h].result.body = "throttled"
    /\ table # {}
    /\ hd[g].tool = "get_authors"
    /\ hd[g].pc = "awaiting"

\* What getCachedOrFetch serves for a key at `now` (in seconds): the rows of
\* the key that are younger than ttlSeconds.
Served(rows, key, now, ttlSeconds) ==
  {r \in rows : r.key = key /\ now - r.created_at < ttlSeconds}

\* C33: getCachedOrFetch returns the stored value, without invoking fetchFn
\* and without changing the store, when the key has a row with
\* now - created_at < ttlSeconds; otherwise it invokes fetchFn once, and when
\* fetchFn has resolved it stores the result under the key and returns it.
C33_HitOrFetch ==
  /\ [][\A p \in Callers :
          /\ (ret'.op = "getCachedOrFetch" /\ ret'.caller = p) =>
                /\ \E r \in Served(kv, out'[p].key, NowSeconds(clock), KVTtl[out'[p].key]) :
                     out'[p].value = r.value
                /\ out'[p].kind = "returned"
                /\ kv' = kv
                /\ pc'[p] = "idle" /\ pc[p] = "idle"
          /\ (pc[p] = "idle" /\ pc'[p] = "fetching") =>
                /\ Served(kv, frame'[p].key, NowSeconds(clock), frame'[p].ttlSeconds) = {}
                /\ kv' = kv
          /\ (pc[p] = "fetching" /\ pc'[p] = "idle" /\ out'[p].fetched # NoValue) =>
                /\ out'[p].kind = "returned"
                /\ out'[p].value = out'[p].fetched
                /\ \E r \in kv' : r.key = frame[p].key /\ r.value = out'[p].fetched
                /\ \A r \in kv' : r.key # frame[p].key => r \in kv]_vars

\* C34: when fetchFn fails inside getCachedOrFetch the error reaches the
\* caller and the store is left exactly as it was, so that a call with the
\* same key made next invokes fetchFn again unless the key already had a
\* row young enough to be served.
C34_FailureNotCached ==
  /\ [][\A p \in Callers :
          (pc[p] = "fetching" /\ pc'[p] = "idle" /\ out'[p].fetched = NoValue) =>
             /\ out'[p].kind = "threw"
             /\ out'[p].key = frame[p].key
             /\ kv' = kv]_vars
  /\ [](\A p \in Callers :
          (/\ out[p].kind = "threw" /\ out[p].fetched = NoValue
           /\ Served(kv, out[p].key, NowSeconds(clock), KVTtl[out[p].key]) = {}) =>
             ENABLED (/\ getCachedOrFetchStart(p, out[p].key, KVTtl[out[p].key])
                      /\ pc'[p] = "fetching"))

\* fetchFn has failed for a key that has no row, and the store is empty.
C34_Witness ==
  \E p \in Callers : /\ out[p].kind = "threw" /\ out[p].fetched = NoValue
                      /\ out[p].key = "cypher:q"
                      /\ kv = {}

\* C36: in the search_papers and get_paper handlers cache.set is called only
\* after the upstream call has returned successfully; when the upstream call
\* fails the cache content is unchanged, the token taken from the limiter is
\* not given back, and the handler returns an error payload as its result.
C36_StoreOnSuccessOnly ==
  /\ [](\A h \in Callers :
          LET t == hmon[h].trace
          IN \A i \in 1..Len(t) :
               t[i] = "cache.set" =>
                 /\ i > 1 /\ t[i - 1] = "upstream"
                 /\ hd[h].tool \in CachedTools
                 /\ hmon[h].result.kind = "returned" /\ hmon[h].result.body = "fresh")
  /\ [][table' # table =>
          \E h \in Callers : /\ hd[h].pc = "awaiting" /\ hd[h].tool \in CachedTools
                              /\ hmon'[h].result.body = "fresh"]_vars
  /\ [][\A h \in Callers :
          (hd[h].pc = "awaiting" /\ hmon'[h].result.body = "error") =>
             /\ table' = table
             /\ states' = states
             /\ hmon'[h].result.kind = "returned"
             /\ hmon'[h].trace = hmon[h].trace
             /\ hd'[h].pc = "done"]_vars

\* The upstream call of a search_papers invocation has failed after a miss
\* and an allowed limiter check, while the cache holds a row and the bucket
\* is short of the token taken.
C36_Witness ==
  \E h \in Callers : /\ hd[h].tool = "search_papers" /\ hd[h].pc = "done"
                      /\ hmon[h].result.body = "error"
                      /\ hmon[h].trace = <<"cache.get", "isAllowed", "upstream">>
                      /\ table # {}
                      /\ states["default"].tokens < BurstSize

\* C37: after a retryable failure the failed attempt's session stays open
\* during the backoff sleep, is closed only once the sleep has finished, and
\* is closed before the next attempt's session is opened.
C37_CloseAfterSleep ==
  /\ [](gq.pc = "sleeping" => gmon.opened - gmon.closed = 1)
  /\ [][gq.pc \in {"running", "sleeping"} => gmon'.closed = gmon.closed]_vars
  /\ [][(gq.pc = "sleeping" /\ gq'.pc # "sleeping") =>
          /\ gq'.pc = "closing"
          /\ clock' = clock + gq.delay
          /\ gmon'.opened = gmon.opened]_vars
  /\ [][(gmon'.opened > gmon.opened /\ gmon.opened > 0) =>
          /\ gq.pc = "closing"
          /\ gmon'.closed = gmon.opened
          /\ gmon'.opened = gmon.opened + 1]_vars

\* The second attempt runs after one connection error: the backoff of
\* 1000 ms is over, the first session is closed and the second is open.
C37_Witness ==
  /\ gq.pc = "running"
  /\ gq.attempt = 1
  /\ Len(gmon.attempts) = 1
  /\ gmon.attempts[1].error.class = "connection"
  /\ gmon.sleeps = <<1000>>
  /\ gmon.opened = 2
  /\ gmon.closed = 1

\* C31: while callers keep calling isAllowed on one key, directly or through
\* waitForToken, and time passes without bound, a call that was denied is
\* followed by a call that returns true, whatever the spacing of the calls.
C31_NoStarvation ==
  (lret.op = "isAllowed" /\ lret.key = "default" /\ ~lret.allowed)
    ~> (lret.op = "isAllowed" /\ lret.key = "default" /\ lret.allowed)

\* C38: waitForToken returns true in the step in which one of its isAllowed
\* calls succeeds, that call having taken exactly one token; it returns
\* false, without touching the bucket, once maxWaitMs has elapsed since its
\* start and not before; every sleep it starts lasts a positive time and
\* ends at the deadline at the latest; and every call returns, whatever the
\* other callers take from the bucket.
C38_WaitTerminates ==
  /\ [][\A w \in Callers :
          (wt'[w] # wt[w] /\ wt'[w].result = "true") =>
             /\ wt'[w].pc = "idle"
             /\ lret'.op = "isAllowed" /\ lret'.key = wt'[w].key /\ lret'.allowed
             /\ lret'.refilled >= 1
             /\ states'[wt'[w].key].tokens = lret'.refilled - 1
             /\ wt'[w].waited < wt'[w].maxWaitMs]_vars
  /\ [][\A w \in Callers :
          (wt'[w] # wt[w] /\ wt'[w].result = "false") =>
             /\ wt'[w].pc = "idle"
             /\ wt'[w].waited >= wt'[w].maxWaitMs
             /\ wt'[w].waited <= wt'[w].maxWaitMs + msPerToken
             /\ states' = states]_vars
  /\ [][\A w \in Callers :
          (wt'[w] # wt[w] /\ wt'[w].pc = "sleeping" /\ clock' = clock
             /\ lret'.op = "isAllowed") =>
             /\ ~lret'.allowed
             /\ wt'[w].due > clock
             /\ wt'[w].due <= wt'[w].startWait + wt'[w].maxWaitMs
             /\ wt'[w].due <= clock + msPerToken]_vars
  /\ \A w \in Callers : (wt[w].pc = "sleeping") ~> (wt[w].pc = "idle")

\* A call with the longest maxWaitMs has returned false after waiting that
\* long: the other callers took every token that came.
C38_Witness ==
  \E w \in Callers : /\ wt[w].pc = "idle" /\ wt[w].result = "false"
                      /\ wt[w].maxWaitMs = MaxWaitPeriods * msPerToken
                      /\ wt[w].waited = wt[w].maxWaitMs

\* C32: under any interleaving of concurrent callers of throttledFetch, any
\* two upstream fetches are started at least 1000 ms apart.
C32_FetchesSpaced ==
  \A i, j \in DOMAIN fetchAt : i < j => fetchAt[j] - fetchAt[i] >= 1000

\* C35: two invocations of the server's handlers whose responses are
\* computed from a different tool or from different argument values never
\* build the same cache key.
C35_KeyInjective ==
  \A p, q \in Callers :
    (sk[p] # NoInvocation /\ sk[q] # NoInvocation /\ sk[p].key = sk[q].key) =>
       Computation(sk[p].tool, sk[p].args) = Computation(sk[q].tool, sk[q].args)

\* C39: the transports table holds exactly the ids of the sessions that
\* were initialized and not yet closed; a session comes only from an
\* initialize request of POST /mcp that carries no session id; and a request
\* with an id the table does not hold, or a POST with no id and a body that
\* is not an initialize request, is answered 400 and changes nothing.
C39_SessionTable ==
  /\ [](transports = sess.initialized \ sess.closed)
  /\ [][sess'.connecting > sess.connecting =>
          /\ sess'.resp.route = "POST" /\ sess'.resp.body = "initialize"
          /\ sess'.resp.header \in {NoHeader, <<>>}
          /\ transports' = transports]_vars
  /\ [][\A sid \in transports' \ transports :
          /\ sess.connecting > 0 /\ sess'.connecting = sess.connecting - 1
          /\ sid \notin sess.initialized
          /\ transports' = transports \cup {sid}]_vars
  /\ [][(sess' # sess /\ sess'.resp.route # "none") =>
          LET r == sess'.resp
              unknown == r.header \notin {NoHeader, <<>>} /\ r.header \notin transports
              stray == r.route = "POST" /\ r.header \in {NoHeader, <<>>}
                         /\ r.body # "initialize"
              absent == r.route # "POST" /\ r.header \in {NoHeader, <<>>}
          IN /\ (unknown \/ stray \/ absent) =>
                  /\ r.status = 400
                  /\ transports' = transports
                  /\ sess' = [sess EXCEPT !.resp = r]
             /\ r.status = 400 => (unknown \/ stray \/ absent)]_vars

\* One session is open, another was closed, and a request carrying the
\* closed session's id has been answered 400.
C39_Witness ==
  /\ Cardinality(transports) = 1
  /\ Cardinality(sess.closed) = 1
  /\ sess.resp.status = 400
  /\ sess.resp.header \in sess.closed
====
